---- MODULE Spec2Model ----
(***************************************************************************)
(* Model of records/fuzzy_datetime: the precision-aware date/time value    *)
(* FuzzyDatetime (dt.py), its grammar (DATETIME_REG, DATE_REG) and the     *)
(* timezone resolution FlexiTimezone (tz.py).                              *)
(*                                                                         *)
(* Text is a sequence of one-character strings.  Python's None is -1 for   *)
(* an integer component (no modelled input is negative), <<>> for a        *)
(* string, and the record NoneObj for an object.                           *)
(***************************************************************************)
EXTENDS Integers, Sequences, FiniteSets, TLC

VARIABLES
    pc,                     \* "call": the drawn call is pending; "done": it returned or raised; "live": a value's life
    op,                     \* the operation that ran last
    args,                   \* the arguments of the call (drawn by Init, or chosen by the action)
    ret,                    \* what the last call returned or raised
    cur,                    \* the FuzzyDatetime the caller holds, or NoneObj
    nops,                   \* operations applied so far in a value's life
    all_timezones,          \* tz.py: registry index by lowercase name
    all_timezones_by_abbr   \* tz.py: registry index by lowercase abbreviation

vars == <<pc, op, args, ret, cur, nops, all_timezones, all_timezones_by_abbr>>

None == -1
NoneObj == [none |-> TRUE]

-----------------------------------------------------------------------------
(* Characters and character classes of the regular expressions.            *)

Digits == {"0", "1", "2", "3", "4", "5", "6", "7", "8", "9"}
UpperSeq == <<"A", "B", "C", "D", "E", "F", "G", "H", "I", "J", "K", "L", "M",
              "N", "O", "P", "Q", "R", "S", "T", "U", "V", "W", "X", "Y", "Z">>
LowerSeq == <<"a", "b", "c", "d", "e", "f", "g", "h", "i", "j", "k", "l", "m",
              "n", "o", "p", "q", "r", "s", "t", "u", "v", "w", "x", "y", "z">>
Letters == {UpperSeq[i] : i \in DOMAIN UpperSeq} \cup {LowerSeq[i] : i \in DOMAIN LowerSeq}

\* \d
IsDigit(c) == c \in Digits
\* [/.-]
IsDateSep(c) == c \in {"/", ".", "-"}
\* [:.-]
IsTimeSep(c) == c \in {":", ".", "-"}
\* [ T]
IsDateTimeSep(c) == c \in {" ", "T"}
\* \s
IsSpace(c) == c \in {" ", "\t", "\n"}
\* one character of TZ_PATTERN, [a-zA-Z0-9/_:+-]
IsTzChar(c) == c \in Letters \cup Digits \cup {"/", "_", ":", "+", "-"}

\* str.lower() of one character, then of a string
LowerChar(c) ==
    IF \E i \in DOMAIN UpperSeq : UpperSeq[i] = c
    THEN LowerSeq[CHOOSE i \in DOMAIN UpperSeq : UpperSeq[i] = c]
    ELSE c
Lower(s) == [i \in DOMAIN s |-> LowerChar(s[i])]

DigitVal(c) ==
    CASE c = "0" -> 0 [] c = "1" -> 1 [] c = "2" -> 2 [] c = "3" -> 3 [] c = "4" -> 4
      [] c = "5" -> 5 [] c = "6" -> 6 [] c = "7" -> 7 [] c = "8" -> 8 [] c = "9" -> 9

\* int() of a run of digits
RECURSIVE IntOf(_)
IntOf(d) == IF d = <<>> THEN 0 ELSE IntOf(SubSeq(d, 1, Len(d) - 1)) * 10 + DigitVal(d[Len(d)])

\* l digits stand at position p of s
DigitsAt(s, p, l) == p + l - 1 <= Len(s) /\ \A i \in p..(p + l - 1) : IsDigit(s[i])
\* $ : the end of the string, or just before a newline that ends it
AtEnd(s, p) == p = Len(s) + 1 \/ (p = Len(s) /\ s[p] = "\n")

-----------------------------------------------------------------------------
(* DATETIME_REG and DATE_REG.  Each operator returns the matches of the    *)
(* rest of the pattern from position p, in the order the backtracking      *)
(* matcher tries them (an optional group is tried taken before skipped,    *)
(* \d{1,2} with two digits before one); re.match returns the first.        *)

NoGroups == [year |-> <<>>, sep1 |-> <<>>, month |-> <<>>, sep2 |-> <<>>, day |-> <<>>,
             hour |-> <<>>, sep3 |-> <<>>, minute |-> <<>>, sep4 |-> <<>>, second |-> <<>>,
             tz |-> <<>>]

\* \d{1,2}: the matches with two digits come before those with one
TwoThenOne(f) == f[2] \o f[1]
\* what re.match returns of the matches found: the first, <<>> when there is none
FirstMatch(found) == IF found = <<>> THEN <<>> ELSE <<Head(found)>>
\* g with group `name` set
With(g, name, text) == [g EXCEPT ![name] = text]

\* the length of the run of TZ_PATTERN characters that starts at p
RECURSIVE TzRun(_, _)
TzRun(s, p) == IF p <= Len(s) /\ IsTzChar(s[p]) THEN 1 + TzRun(s, p + 1) ELSE 0

\* the longest of the lengths in `ends`
Longest(ends) == CHOOSE m \in ends : \A k \in ends : k <= m

\* (?P<tz>[a-zA-Z0-9/_:+-]+) then $ : the longest run that reaches the end
TzAt(s, p, g) ==
    LET ends == {l \in 1..TzRun(s, p) : AtEnd(s, p + l)}
    IN  IF ends = {} THEN <<>> ELSE <<With(g, "tz", SubSeq(s, p, p + Longest(ends) - 1))>>

\* (?:\s?(?P<tz>...))?$
TzTail(s, p, g) ==
    (IF p <= Len(s) /\ IsSpace(s[p]) THEN TzAt(s, p + 1, g) ELSE <<>>)
    \o TzAt(s, p, g)
    \o (IF AtEnd(s, p) THEN <<g>> ELSE <<>>)

\* (?:(?P<sep4>[:.-])(?P<second>\d{1,2}))? and the timezone tail
AfterMinute(s, p, g) ==
    TwoThenOne([l \in {1, 2} |->
        IF p <= Len(s) /\ IsTimeSep(s[p]) /\ DigitsAt(s, p + 1, l)
        THEN TzTail(s, p + 1 + l, With(With(g, "sep4", <<s[p]>>), "second", SubSeq(s, p + 1, p + l)))
        ELSE <<>>])
    \o TzTail(s, p, g)

\* (?:(?P<sep3>[:.-])(?P<minute>\d{1,2})(?:...)?)? and the timezone tail
AfterHour(s, p, g) ==
    TwoThenOne([l \in {1, 2} |->
        IF p <= Len(s) /\ IsTimeSep(s[p]) /\ DigitsAt(s, p + 1, l)
        THEN AfterMinute(s, p + 1 + l,
                         With(With(g, "sep3", <<s[p]>>), "minute", SubSeq(s, p + 1, p + l)))
        ELSE <<>>])
    \o TzTail(s, p, g)

\* (?:[ T](?P<hour>\d{1,2}) ... )?$
AfterDay(s, p, g) ==
    TwoThenOne([l \in {1, 2} |->
        IF p <= Len(s) /\ IsDateTimeSep(s[p]) /\ DigitsAt(s, p + 1, l)
        THEN AfterHour(s, p + 1 + l, With(g, "hour", SubSeq(s, p + 1, p + l)))
        ELSE <<>>])
    \o (IF AtEnd(s, p) THEN <<g>> ELSE <<>>)

\* (?:(?P<sep2>[/.-])(?P<day>\d{1,2}) ... )?$
AfterMonth(s, p, g) ==
    TwoThenOne([l \in {1, 2} |->
        IF p <= Len(s) /\ IsDateSep(s[p]) /\ DigitsAt(s, p + 1, l)
        THEN AfterDay(s, p + 1 + l, With(With(g, "sep2", <<s[p]>>), "day", SubSeq(s, p + 1, p + l)))
        ELSE <<>>])
    \o (IF AtEnd(s, p) THEN <<g>> ELSE <<>>)

\* (?:(?P<sep1>[/.-])(?P<month>\d{1,2}) ... )?$
AfterYear(s, p, g) ==
    TwoThenOne([l \in {1, 2} |->
        IF p <= Len(s) /\ IsDateSep(s[p]) /\ DigitsAt(s, p + 1, l)
        THEN AfterMonth(s, p + 1 + l,
                        With(With(g, "sep1", <<s[p]>>), "month", SubSeq(s, p + 1, p + l)))
        ELSE <<>>])
    \o (IF AtEnd(s, p) THEN <<g>> ELSE <<>>)

\* DATETIME_REG.match(source): <<>> for no match, else <<groupdict>>
DATETIME_REG(s) ==
    FirstMatch(IF DigitsAt(s, 1, 4) THEN AfterYear(s, 5, With(NoGroups, "year", SubSeq(s, 1, 4)))
               ELSE <<>>)

\* DATE_REG: T?$ after the day
DateAfterDay(s, p, g) ==
    (IF p <= Len(s) /\ s[p] = "T" /\ AtEnd(s, p + 1) THEN <<g>> ELSE <<>>)
    \o (IF AtEnd(s, p) THEN <<g>> ELSE <<>>)

\* DATE_REG: (?:(?P<sep2>[/.-])(?P<day>\d{1,2})T?)?$
DateAfterMonth(s, p, g) ==
    TwoThenOne([l \in {1, 2} |->
        IF p <= Len(s) /\ IsDateSep(s[p]) /\ DigitsAt(s, p + 1, l)
        THEN DateAfterDay(s, p + 1 + l,
                          With(With(g, "sep2", <<s[p]>>), "day", SubSeq(s, p + 1, p + l)))
        ELSE <<>>])
    \o (IF AtEnd(s, p) THEN <<g>> ELSE <<>>)

\* DATE_REG: (?:(?P<sep1>[/.-])(?P<month>\d{1,2}) ... )?$
DateAfterYear(s, p, g) ==
    TwoThenOne([l \in {1, 2} |->
        IF p <= Len(s) /\ IsDateSep(s[p]) /\ DigitsAt(s, p + 1, l)
        THEN DateAfterMonth(s, p + 1 + l,
                            With(With(g, "sep1", <<s[p]>>), "month", SubSeq(s, p + 1, p + l)))
        ELSE <<>>])
    \o (IF AtEnd(s, p) THEN <<g>> ELSE <<>>)

\* DATE_REG.match(source)
DATE_REG(s) ==
    FirstMatch(IF DigitsAt(s, 1, 4) THEN DateAfterYear(s, 5, With(NoGroups, "year", SubSeq(s, 1, 4)))
               ELSE <<>>)

-----------------------------------------------------------------------------
(* What a call gives back: a value, or an error of the fuzzy_datetime      *)
(* error classes (error.py) with its message, its details and its cause.   *)
(* `message` is the fixed wording of the message and `shows` the variables *)
(* the message interpolates; `details` is the mapping handed to the error  *)
(* as details=.  Every class lists ValueError (TypeError) before FDError,  *)
(* so FDError.__init__ does not run: message, code and details are the     *)
(* exception's args, in this order.                                        *)

Returned(v) ==
    [kind |-> "ok", value |-> v, message |-> "", shows |-> {}, details |-> <<>>, cause |-> NoneObj]
Raised(kind, message, shows, details, cause) ==
    [kind |-> kind, value |-> NoneObj, message |-> message, shows |-> shows,
     details |-> details, cause |-> cause]
NoCall == [kind |-> "none", value |-> NoneObj, message |-> "", shows |-> {}, details |-> <<>>,
           cause |-> NoneObj]

-----------------------------------------------------------------------------
(* The timezone registry.  tz_map.py is not part of the sources read here: *)
(* the table stands for it, with the zones the specification names.        *)

TZ_MAP == <<
    [name |-> <<"U", "T", "C">>, abbr |-> <<"U", "T", "C">>, utcOffset |-> 0],
    [name |-> <<"A", "s", "i", "a", "/", "T", "o", "k", "y", "o">>,
     abbr |-> <<"J", "S", "T">>, utcOffset |-> 540],
    [name |-> <<"A", "s", "i", "a", "/", "S", "e", "o", "u", "l">>,
     abbr |-> <<"K", "S", "T">>, utcOffset |-> 540],
    [name |-> <<"E", "S", "T">>, abbr |-> <<"E", "S", "T">>, utcOffset |-> -300]
>>

\* FlexiTimezone(offset, abbreviation, name)
FlexiTimezone(offset, abbreviation, name) ==
    [offset |-> offset, abbreviation |-> abbreviation, name |-> name]

\* all_timezones = { name.lower(): FlexiTimezone(...) for tz_info in TZ_MAP }: a later
\* entry of the table replaces an earlier one with the same key
BuildAllTimezones(map) ==
    LET keys == {Lower(map[i].name) : i \in DOMAIN map}
        last(k) == CHOOSE i \in DOMAIN map :
                       /\ Lower(map[i].name) = k
                       /\ \A j \in DOMAIN map : Lower(map[j].name) = k => j <= i
    IN  [k \in keys |-> FlexiTimezone(map[last(k)].utcOffset, map[last(k)].abbr, map[last(k)].name)]

\* as BuildAllTimezonesByAbbr, every entry made anew from its offset and abbreviation
DetachedByAbbr(map, byName) ==
    LET keys == {Lower(byName[k].abbreviation) : k \in DOMAIN byName}
        some(a) == CHOOSE k \in DOMAIN byName : Lower(byName[k].abbreviation) = a
    IN  [a \in keys |-> FlexiTimezone(byName[some(a)].offset, byName[some(a)].abbreviation, <<>>)]

\* all_timezones_by_abbr = { tz.abbreviation.lower(): tz for tz in all_timezones.values() }:
\* the values come in the order their keys were first inserted
BuildAllTimezonesByAbbr(map, byName) ==
    LET first(k) == CHOOSE i \in DOMAIN map :
                        /\ Lower(map[i].name) = k
                        /\ \A j \in DOMAIN map : Lower(map[j].name) = k => i <= j
        keys == {Lower(byName[k].abbreviation) : k \in DOMAIN byName}
        last(a) == CHOOSE k \in DOMAIN byName :
                       /\ Lower(byName[k].abbreviation) = a
                       /\ \A h \in DOMAIN byName :
                              Lower(byName[h].abbreviation) = a => first(h) <= first(k)
    IN  [a \in keys |-> byName[last(a)]]

-----------------------------------------------------------------------------
(* FlexiTimezone._OFFSET_REGEX (re.IGNORECASE), in the matcher's order.    *)

NoOffsetGroups == [utc |-> <<>>, sign |-> <<>>, hours |-> <<>>, sep |-> <<>>, minutes |-> <<>>,
                   compact_offset |-> <<>>]

\* hours : minutes $ at q, hours of lh digits and minutes of lm
ColonOffset(s, q, g, lh, lm) ==
    IF /\ DigitsAt(s, q, lh)
       /\ q + lh <= Len(s) /\ s[q + lh] = ":"
       /\ DigitsAt(s, q + lh + 1, lm)
       /\ AtEnd(s, q + lh + 1 + lm)
    THEN <<[g EXCEPT !.hours = SubSeq(s, q, q + lh - 1), !.sep = <<":">>,
                     !.minutes = SubSeq(s, q + lh + 1, q + lh + lm)]>>
    ELSE <<>>

\* compact_offset $ at q, of l digits
CompactOffset(s, q, g, l) ==
    IF DigitsAt(s, q, l) /\ AtEnd(s, q + l)
    THEN <<[g EXCEPT !.compact_offset = SubSeq(s, q, q + l - 1)]>>
    ELSE <<>>

\* (?P<sign>[+-])( hours : minutes | compact_offset )$ from position p
OffsetAfterUtc(s, p, g) ==
    IF p <= Len(s) /\ s[p] \in {"+", "-"}
    THEN TwoThenOne([lh \in {1, 2} |->
             TwoThenOne([lm \in {1, 2} |-> ColonOffset(s, p + 1, With(g, "sign", <<s[p]>>), lh, lm)])])
         \o TwoThenOne([half \in {1, 2} |->
                TwoThenOne([l \in {1, 2} |->
                    CompactOffset(s, p + 1, With(g, "sign", <<s[p]>>), 2 * (half - 1) + l)])])
    ELSE <<>>

\* _OFFSET_REGEX.match(tz_input)
OFFSET_REGEX(s) ==
    FirstMatch((IF Len(s) >= 3 /\ Lower(SubSeq(s, 1, 3)) = <<"u", "t", "c">>
                THEN OffsetAfterUtc(s, 4, With(NoOffsetGroups, "utc", SubSeq(s, 1, 3)))
                ELSE <<>>)
               \o OffsetAfterUtc(s, 1, NoOffsetGroups))

-----------------------------------------------------------------------------
(* FlexiTimezone.parse                                                     *)

\* the argument None of allowed_formats / allowed_tz_formats
NoneFormats == {"None"}
AllTzFormats == {"name", "abbr", "z", "+hh:mm", "+hhmm", "utc+hh:mm", "utc+hhmm"}

\* the error of a form that matched and is not in allowed_formats; its message names the form
TzNotAllowed(form, s) ==
    Raised("FDTimezoneFormatError", form, {"allowed_formats"}, [input |-> s], NoneObj)

\* which of the four numeric forms the match m is
OffsetForm(m) ==
    IF m.sep # <<>>
    THEN (IF m.utc # <<>> THEN "utc+hh:mm" ELSE "+hh:mm")
    ELSE (IF m.utc # <<>> THEN "utc+hhmm" ELSE "+hhmm")

\* OffsetHours without the split of a compact run: the whole run is the hours
WholeRunHours(m) == IF m.sep # <<>> THEN m.hours ELSE m.compact_offset

\* hours and minutes of the match
OffsetHours(m) ==
    IF m.sep # <<>> THEN m.hours
    ELSE IF Len(m.compact_offset) \in {1, 2} THEN m.compact_offset
    ELSE IF Len(m.compact_offset) = 3 THEN SubSeq(m.compact_offset, 1, 1)
    ELSE SubSeq(m.compact_offset, 1, 2)
OffsetMinutes(m) ==
    IF m.sep # <<>> THEN (IF m.minutes # <<>> THEN m.minutes ELSE <<"0">>)
    ELSE IF Len(m.compact_offset) \in {1, 2} THEN <<"0">>
    ELSE IF Len(m.compact_offset) = 3 THEN SubSeq(m.compact_offset, 2, 3)
    ELSE SubSeq(m.compact_offset, 3, 4)

\* FlexiTimezone(offset=-offset if sign == '-' else offset, abbreviation=None, name=None)
SignedOffset(sign, offset) == FlexiTimezone(IF sign = <<"-">> THEN -offset ELSE offset, <<>>, <<>>)

\* the numeric branch of FlexiTimezone.parse, m the result of _OFFSET_REGEX.match
ParseOffset(s, m, allowed_formats) ==
    IF m = <<>>
    THEN Raised("FDTimezoneFormatError", "Invalid timezone format", {"s"}, [input |-> s], NoneObj)
    ELSE IF OffsetForm(m[1]) \notin allowed_formats
    THEN TzNotAllowed(OffsetForm(m[1]), s)
    ELSE Returned(SignedOffset(m[1].sign, IntOf(OffsetHours(m[1])) * 60 + IntOf(OffsetMinutes(m[1]))))

\* ParseLowered going on to the later forms when the form that matches is not allowed
FallsThrough(s, tz_input, allowed_formats) ==
    IF tz_input \in DOMAIN all_timezones /\ "name" \in allowed_formats
    THEN Returned(all_timezones[tz_input])
    ELSE IF tz_input = <<"z">> /\ "z" \in allowed_formats
    THEN Returned(all_timezones_by_abbr[<<"u", "t", "c">>])
    ELSE IF tz_input \in DOMAIN all_timezones_by_abbr /\ "abbr" \in allowed_formats
    THEN Returned(all_timezones_by_abbr[tz_input])
    ELSE ParseOffset(s, OFFSET_REGEX(tz_input), allowed_formats)

\* FlexiTimezone.parse after allowed_formats is made a set and s lowercased
ParseLowered(s, tz_input, allowed_formats) ==
    IF tz_input \in DOMAIN all_timezones
    THEN (IF "name" \notin allowed_formats
          THEN TzNotAllowed("name", s)
          ELSE Returned(all_timezones[tz_input]))
    ELSE IF tz_input = <<"z">>
    THEN (IF "z" \notin allowed_formats
          THEN TzNotAllowed("z", s)
          ELSE IF <<"u", "t", "c">> \in DOMAIN all_timezones_by_abbr
          THEN Returned(all_timezones_by_abbr[<<"u", "t", "c">>])
          ELSE Raised("KeyError", "utc", {}, <<>>, NoneObj))
    ELSE IF tz_input \in DOMAIN all_timezones_by_abbr
    THEN (IF "abbr" \notin allowed_formats
          THEN TzNotAllowed("abbr", s)
          ELSE Returned(all_timezones_by_abbr[tz_input]))
    ELSE ParseOffset(s, OFFSET_REGEX(tz_input), allowed_formats)

FlexiTimezone_parse(s, allowed) ==
    ParseLowered(s, Lower(s), IF allowed = NoneFormats THEN AllTzFormats ELSE allowed)

\* FlexiTimezone.by_abbr
by_abbr(abbr) ==
    IF Lower(abbr) \in DOMAIN all_timezones_by_abbr THEN Returned(all_timezones_by_abbr[Lower(abbr)])
    ELSE Raised("FDTimezoneValueError", "Unknown timezone abbreviation", {"abbr"}, NoneObj, NoneObj)

\* FlexiTimezone.by_name
by_name(name) ==
    IF Lower(name) \in DOMAIN all_timezones THEN Returned(all_timezones[Lower(name)])
    ELSE Raised("FDTimezoneValueError", "Unknown timezone name", {"name"}, NoneObj, NoneObj)

-----------------------------------------------------------------------------
(* DatePrecision.  dt.py imports it from precision.py, whose file here     *)
(* holds another class; dt.py uses it as an integer enumeration indexed    *)
(* from YEAR = 0 (components[:precision + 1], range(precision + 1, ...),   *)
(* DatePrecision(i), len(DatePrecision)), with by_name raising KeyError.   *)

YEAR == 0
MONTH == 1
DAY == 2
HOUR == 3
MINUTE == 4
SECOND == 5
\* len(DatePrecision)
NumPrecisions == 6
PrecisionNames == <<"year", "month", "day", "hour", "minute", "second">>

\* a precision argument: a name (str), a DatePrecision member, or None
PStr(name) == [str |-> name]
PEnum(i) == [enum |-> i]
IsStr(p) == "str" \in DOMAIN p
\* bool(p): a non-empty str, or a member other than YEAR (an integer enumeration's 0 is false)
Truthy(p) == IF IsStr(p) THEN p.str # "" ELSE IF "enum" \in DOMAIN p THEN p.enum # 0 ELSE FALSE

\* DatePrecision.by_name(name): <<index>>, or <<>> for KeyError
DatePrecision_by_name(name) ==
    IF \E i \in DOMAIN PrecisionNames : PrecisionNames[i] = name
    THEN <<(CHOOSE i \in DOMAIN PrecisionNames : PrecisionNames[i] = name) - 1>>
    ELSE <<>>

Min(a, b) == IF a <= b THEN a ELSE b

-----------------------------------------------------------------------------
(* FuzzyDatetime: construction.  A value is                                *)
(*   [components |-> <<year, month, day, hour, minute, second>>,           *)
(*    precision |-> 0..5, tzinfo |-> a FlexiTimezone or NoneObj].          *)
(* components[i + 1] is the source's components[i].                        *)

\* err when it is an error, else result
OrElse(err, result) == IF err.kind # "none" THEN err ELSE result

\* the precision argument as a member: <<index>>, or <<>> when by_name raises KeyError
Named(precision) ==
    IF IsStr(precision) THEN DatePrecision_by_name(precision.str) ELSE <<precision.enum>>

\* the deepest component that is set, YEAR when none below the year is
Inferred(components) ==
    LET deepest == {i \in 1..(NumPrecisions - 1) : components[i + 1] # None}
    IN  IF deepest = {} THEN YEAR ELSE CHOOSE i \in deepest : \A k \in deepest : k <= i

\* FillDefaults without its loop: hour, minute and second stay None
Unfilled(components, i, precision) == components

\* for j in range(i, precision + 1): if components[j] is None: components[j] = 0
FillDefaults(components, i, precision) ==
    [j \in 1..NumPrecisions |->
        IF j - 1 \in i..precision /\ components[j] = None THEN 0 ELSE components[j]]

\* the two checks of the components and the filling.  The two raise statements read
\* self.year / self._precision before __init__ has set self._components and
\* self._precision, so what leaves them is an AttributeError.
CheckComponents(components, given, precision) ==
    IF given /\ \E i \in (precision + 1)..(NumPrecisions - 1) : components[i + 1] # None
    THEN Raised("AttributeError", "_components", {}, <<>>, NoneObj)
    ELSE IF \E i \in 0..(Min(HOUR, precision + 1) - 1) : components[i + 1] = None
    THEN Raised("AttributeError", "_precision", {}, <<>>, NoneObj)
    ELSE [kind |-> "ok",
          components |-> FillDefaults(components, Min(HOUR, precision + 1) - 1, precision),
          precision |-> precision]

\* FuzzyDatetime._determine_precision: [components, precision] or an error
determine_precision(components, precision) ==
    IF ~Truthy(precision) THEN CheckComponents(components, FALSE, Inferred(components))
    ELSE IF Named(precision) = <<>>
    THEN Raised("FDValueError", "Unknown precision", {"precision"},
                [input |-> precision.str], [kind |-> "KeyError"])
    ELSE CheckComponents(components, TRUE, Named(precision)[1])

\* the leap rule without its century exception
EveryFourth(year) == year % 4 = 0

\* calendar.isleap and calendar.monthrange(year, month)[1]
isleap(year) == year % 4 = 0 /\ (year % 100 # 0 \/ year % 400 = 0)
monthrange(year, month) ==
    IF month = 2 THEN (IF isleap(year) THEN 29 ELSE 28)
    ELSE IF month \in {4, 6, 9, 11} THEN 30 ELSE 31

\* the FDValueError of _validate_datetime for `field`: the message names the field and its
\* value, the details hold the field (for the day, the year and the month too)
ValueError(field, c) ==
    Raised("FDValueError", "out of range", {field},
           IF field = "day"
           THEN [year |-> c[1], month |-> c[2], day |-> c[3]]
           ELSE [f \in {field} |-> c[(CHOOSE i \in DOMAIN PrecisionNames : PrecisionNames[i] = field)]],
           NoneObj)

\* a validation that looks at the day before the month, and no further
DayBeforeMonth(c) ==
    IF ~(1 <= c[1] /\ c[1] <= 9999) THEN ValueError("year", c)
    ELSE IF c[3] # None /\ ~(1 <= c[3] /\ c[3] <= 31) THEN ValueError("day", c)
    ELSE IF c[2] # None /\ ~(1 <= c[2] /\ c[2] <= 12) THEN ValueError("month", c)
    ELSE NoCall

\* FuzzyDatetime._validate_datetime: NoCall when nothing is raised
validate_datetime(c) ==
    IF ~(1 <= c[1] /\ c[1] <= 9999) THEN ValueError("year", c)
    ELSE IF c[2] = None THEN NoCall
    ELSE IF ~(1 <= c[2] /\ c[2] <= 12) THEN ValueError("month", c)
    ELSE IF c[3] = None THEN NoCall
    ELSE IF ~(1 <= c[3] /\ c[3] <= monthrange(c[1], c[2])) THEN ValueError("day", c)
    ELSE IF c[4] = None THEN NoCall
    ELSE IF ~(0 <= c[4] /\ c[4] <= 23) THEN ValueError("hour", c)
    ELSE IF c[5] = None THEN NoCall
    ELSE IF ~(0 <= c[5] /\ c[5] <= 59) THEN ValueError("minute", c)
    ELSE IF c[6] # None /\ ~(0 <= c[6] /\ c[6] <= 59) THEN ValueError("second", c)
    ELSE NoCall

\* __init__ after _determine_precision has returned dp
Validated(dp, tzinfo) ==
    IF dp.kind # "ok" THEN dp
    ELSE OrElse(validate_datetime(dp.components),
                Returned([components |-> dp.components, precision |-> dp.precision,
                          tzinfo |-> tzinfo]))

\* FuzzyDatetime.__init__
FuzzyDatetime(year, month, day, hour, minute, second, tzinfo, precision) ==
    Validated(determine_precision(<<year, month, day, hour, minute, second>>, precision), tzinfo)

-----------------------------------------------------------------------------
(* FuzzyDatetime.parse and FuzzyDatetime.parse_date                        *)

DefaultTzFormats == AllTzFormats \cup {"none"}

\* int(g[name]) if g[name] else None
IntOrNone(d) == IF d # <<>> THEN IntOf(d) ELSE None

\* InPrecision without its loop: the precision stays at `last`
NeverLowered(g, last) == last

\* the deepest component the match holds, counted from month up to `last`
InPrecision(g, last) ==
    LET part == <<g.month, g.day, g.hour, g.minute, g.second>>
        missing == {i \in MONTH..last : part[i] = <<>>}
    IN  IF missing = {} THEN last ELSE (CHOOSE i \in missing : \A k \in missing : i <= k) - 1

\* the FDPrecisionError of an input less precise than required: the message shows
\* precision_required and source, the details hold input and precision_required
PrecisionNotMet(source, required) ==
    Raised("FDPrecisionError", "Precision not met", {"precision_required", "source"},
           [input |-> source, precision_required |-> PEnum(required)], NoneObj)

\* the checks of a precision_required that by_name knows
CheckRequired(source, in_precision, required, dateOnly) ==
    IF dateOnly /\ required > DAY
    THEN Raised("FDPrecisionError", "Argument precision_required must be 'year', 'month', or 'day'",
                {"precision_required"},
                [input |-> source, precision_required |-> PEnum(required)], NoneObj)
    ELSE IF in_precision < required THEN PrecisionNotMet(source, required)
    ELSE NoCall

\* the check of precision_required, shared by parse and parse_date: NoCall when it passes
RequiredPrecision(source, in_precision, precision_required, dateOnly) ==
    IF ~Truthy(precision_required) THEN NoCall
    ELSE IF Named(precision_required) = <<>>
    THEN Raised("FDValueError", "Unknown precision has been specified as precision_required",
                {"precision_required"},
                [input |-> source, precision_required |-> precision_required],
                [kind |-> "KeyError"])
    ELSE CheckRequired(source, in_precision, Named(precision_required)[1], dateOnly)

\* SepsDiffer without its comparison: no two separators ever differ
NeverDiffer(a, b) == FALSE

\* g.get('sepA') and g.get('sepB') and g['sepA'] != g['sepB']
SepsDiffer(a, b) == a # <<>> /\ b # <<>> /\ a # b

MixedDate(source, g) ==
    Raised("FDFormatError", "Mixed date separators", {"source"},
           [input |-> source, sep1 |-> g.sep1, sep2 |-> g.sep2], NoneObj)
MixedTime(source, g) ==
    Raised("FDFormatError", "Mixed time separators", {"source"},
           [input |-> source, sep3 |-> g.sep3, sep4 |-> g.sep4], NoneObj)

\* WrapTzError without the wrapping: the error of FlexiTimezone.parse goes up as it is
Rethrown(source, g, e) == e

\* raise FDTimezoneFormatError(..., details={'input': source, 'timezone': g['tz']}) from e
WrapTzError(source, g, e) ==
    Raised("FDTimezoneFormatError", "Invalid timezone format", {"tz"},
           [input |-> source, timezone |-> g.tz], e)

\* the return statement of parse
Build(g, in_precision, tz_info) ==
    FuzzyDatetime(IntOf(g.year), IntOrNone(g.month), IntOrNone(g.day),
                  IntOrNone(g.hour), IntOrNone(g.minute), IntOrNone(g.second),
                  tz_info, PEnum(in_precision))

\* parse once FlexiTimezone.parse has returned or raised tz
WithTimezone(source, g, in_precision, tz) ==
    IF tz.kind = "FDTimezoneFormatError" THEN WrapTzError(source, g, tz)
    ELSE IF tz.kind # "ok" THEN tz
    ELSE Build(g, in_precision, tz.value)

\* as ParseGroups, the separators looked at before the required precision
SeparatorsFirst(source, g, in_precision, precision_required, same_date_sep, same_time_sep, allowed_tz_formats) ==
    IF same_date_sep /\ SepsDiffer(g.sep1, g.sep2) THEN MixedDate(source, g)
    ELSE IF same_time_sep /\ SepsDiffer(g.sep3, g.sep4) THEN MixedTime(source, g)
    ELSE OrElse(RequiredPrecision(source, in_precision, precision_required, FALSE),
                IF g.tz # <<>>
                THEN WithTimezone(source, g, in_precision, FlexiTimezone_parse(g.tz, allowed_tz_formats))
                ELSE IF "none" \notin allowed_tz_formats
                THEN Raised("FDTimezoneFormatError", "Missing timezone", {"source"},
                            [input |-> source], NoneObj)
                ELSE Build(g, in_precision, NoneObj))

\* parse once the grammar has matched with groups g
ParseGroups(source, g, in_precision, precision_required, same_date_sep, same_time_sep, allowed_tz_formats) ==
    OrElse(RequiredPrecision(source, in_precision, precision_required, FALSE),
           IF same_date_sep /\ SepsDiffer(g.sep1, g.sep2) THEN MixedDate(source, g)
           ELSE IF same_time_sep /\ SepsDiffer(g.sep3, g.sep4) THEN MixedTime(source, g)
           ELSE IF g.tz # <<>>
           THEN WithTimezone(source, g, in_precision, FlexiTimezone_parse(g.tz, allowed_tz_formats))
           ELSE IF "none" \notin allowed_tz_formats
           THEN Raised("FDTimezoneFormatError", "Missing timezone", {"source"},
                       [input |-> source], NoneObj)
           ELSE Build(g, in_precision, NoneObj))

\* parse once the grammar has been applied, m the result of DATETIME_REG.match
ParseMatch(source, m, precision_required, same_date_sep, same_time_sep, allowed_tz_formats) ==
    IF m = <<>>
    THEN Raised("FDFormatError", "Invalid datetime format", {"source"}, [input |-> source], NoneObj)
    ELSE ParseGroups(source, m[1], InPrecision(m[1], SECOND), precision_required, same_date_sep,
                     same_time_sep, allowed_tz_formats)

\* FuzzyDatetime.parse
parse(source, precision_required, same_date_sep, same_time_sep, allowed_tz) ==
    ParseMatch(source, DATETIME_REG(source), precision_required, same_date_sep, same_time_sep,
               IF allowed_tz = NoneFormats THEN DefaultTzFormats ELSE allowed_tz)

\* parse_date once the grammar has matched with groups g
ParseDateGroups(source, g, in_precision, precision_required, same_date_sep) ==
    OrElse(RequiredPrecision(source, in_precision, precision_required, TRUE),
           IF same_date_sep /\ SepsDiffer(g.sep1, g.sep2) THEN MixedDate(source, g)
           ELSE FuzzyDatetime(IntOf(g.year), IntOrNone(g.month), IntOrNone(g.day),
                              None, None, None, NoneObj, PEnum(in_precision)))

\* parse_date once the grammar has been applied, m the result of DATE_REG.match
ParseDateMatch(source, m, precision_required, same_date_sep) ==
    IF m = <<>>
    THEN Raised("FDFormatError", "Invalid date format", {"source"}, [input |-> source], NoneObj)
    ELSE ParseDateGroups(source, m[1], InPrecision(m[1], DAY), precision_required, same_date_sep)

\* FuzzyDatetime.parse_date
parse_date(source, precision_required, same_date_sep) ==
    ParseDateMatch(source, DATE_REG(source), precision_required, same_date_sep)

-----------------------------------------------------------------------------
(* The standard datetime, date and timedelta that the operations take and  *)
(* build: [kind |-> "datetime", year, month, day, hour, minute, second,    *)
(* tzinfo], [kind |-> "date", year, month, day], and a timedelta of whole  *)
(* seconds as [days, seconds].                                             *)

datetime(year, month, day, hour, minute, second, tzinfo) ==
    [kind |-> "datetime", year |-> year, month |-> month, day |-> day, hour |-> hour,
     minute |-> minute, second |-> second, tzinfo |-> tzinfo]
date(year, month, day) == [kind |-> "date", year |-> year, month |-> month, day |-> day]

\* a tzinfo that is not a FlexiTimezone (datetime.timezone.utc)
ForeignTz == [foreign |-> "utc"]
IsFlexiTimezone(tz) == "offset" \in DOMAIN tz

SecondsPerDay == 86400
\* date.max.toordinal()
MaxOrdinal == 3652059

DaysBeforeYear(year) ==
    (year - 1) * 365 + ((year - 1) \div 4) - ((year - 1) \div 100) + ((year - 1) \div 400)
RECURSIVE DaysBeforeMonth(_, _)
DaysBeforeMonth(year, month) ==
    IF month = 1 THEN 0 ELSE DaysBeforeMonth(year, month - 1) + monthrange(year, month - 1)
\* date.toordinal()
toordinal(year, month, day) == DaysBeforeYear(year) + DaysBeforeMonth(year, month) + day

\* the year, then the month, that hold day n of the calendar
YearOfOrdinal(n) ==
    CHOOSE y \in ((n - 1) \div 366 + 1)..((n - 1) \div 365 + 1) :
        DaysBeforeYear(y) < n /\ n <= DaysBeforeYear(y + 1)
MonthOfOrdinal(year, n) ==
    CHOOSE m \in 1..12 :
        /\ DaysBeforeYear(year) + DaysBeforeMonth(year, m) < n
        /\ n <= DaysBeforeYear(year) + DaysBeforeMonth(year, m) + monthrange(year, m)

\* the datetime of day n and second s of the day
AtOrdinalIn(year, n, s, tzinfo) ==
    datetime(year, MonthOfOrdinal(year, n),
             n - DaysBeforeYear(year) - DaysBeforeMonth(year, MonthOfOrdinal(year, n)),
             s \div 3600, (s % 3600) \div 60, s % 60, tzinfo)
AtOrdinal(n, s, tzinfo) == AtOrdinalIn(YearOfOrdinal(n), n, s, tzinfo)

\* timedelta(days=days, seconds=seconds), normalised as Python keeps it: 0 <= seconds < 86400
timedelta(days, seconds) ==
    [days |-> days + (seconds \div SecondsPerDay), seconds |-> seconds % SecondsPerDay]
\* -timedelta
Negated(delta) == timedelta(-delta.days, -delta.seconds)

\* the datetime of second s counted from the start of day n: OverflowError outside the calendar
AtDaySecond(n, s, tzinfo) ==
    IF n + (s \div SecondsPerDay) \in 1..MaxOrdinal
    THEN Returned(AtOrdinal(n + (s \div SecondsPerDay), s % SecondsPerDay, tzinfo))
    ELSE Raised("OverflowError", "date value out of range", {}, <<>>, NoneObj)

\* datetime + timedelta
Shift(dt, delta) ==
    AtDaySecond(toordinal(dt.year, dt.month, dt.day) + delta.days,
                dt.hour * 3600 + dt.minute * 60 + dt.second + delta.seconds,
                dt.tzinfo)

-----------------------------------------------------------------------------
(* FuzzyDatetime: the operations on a value.                               *)

\* the first n of the six components, the others None
Take(components, n) == [i \in 1..NumPrecisions |-> IF i <= n THEN components[i] ELSE None]

\* FuzzyDatetime(*components, tzinfo=tzinfo, precision=precision)
New(c, tzinfo, precision) == FuzzyDatetime(c[1], c[2], c[3], c[4], c[5], c[6], tzinfo, precision)

\* FuzzyDatetime.from_datetime.  FlexiTimezone has no from_datetime, so a datetime
\* ends in an AttributeError before the value is built.
from_datetime(dt) ==
    IF "kind" \in DOMAIN dt /\ dt.kind = "datetime"
    THEN Raised("AttributeError", "from_datetime", {}, <<>>, NoneObj)
    ELSE IF "kind" \in DOMAIN dt /\ dt.kind = "date"
    THEN FuzzyDatetime(dt.year, dt.month, dt.day, None, None, None, NoneObj, PEnum(DAY))
    ELSE Raised("FDTypeError", "Unsupported type for conversion", {"type"}, [input |-> dt], NoneObj)

\* kwargs.get(key, default)
Get(kwargs, key, default) == IF key \in DOMAIN kwargs THEN kwargs[key] ELSE default

\* FuzzyDatetime.replace
replace(self, kwargs) ==
    FuzzyDatetime(Get(kwargs, "year", self.components[1]), Get(kwargs, "month", self.components[2]),
                  Get(kwargs, "day", self.components[3]), Get(kwargs, "hour", self.components[4]),
                  Get(kwargs, "minute", self.components[5]), Get(kwargs, "second", self.components[6]),
                  Get(kwargs, "tzinfo", self.tzinfo), NoneObj)

\* the choice of the timezone at the end of with_precision, then the construction.
\* `default` is read for its tzinfo even when it is None.
Rebuild(components, prec, default, tzinfo) ==
    IF prec < HOUR THEN New(components, NoneObj, PEnum(prec))
    ELSE IF default = NoneObj
    THEN Raised("AttributeError", "tzinfo", {}, <<>>, NoneObj)
    ELSE IF default.tzinfo # NoneObj
    THEN (IF ~IsFlexiTimezone(default.tzinfo)
          THEN Raised("FDTypeError", "FlexiTimezone expected for default.tzinfo", {"type"},
                      [default |-> default], NoneObj)
          ELSE New(components, default.tzinfo, PEnum(prec)))
    ELSE New(components, tzinfo, PEnum(prec))

\* Narrow without the check of the target: 'ceil' and 'round' are applied at Year and Month
RoundsAnywhere(self, prec, default, rounding) ==
    IF rounding = "trunc" THEN Rebuild(Take(self.components, prec + 1), prec, default, self.tzinfo)
    ELSE IF rounding \notin {"ceil", "round"}
    THEN Raised("FDValueError", "Unknown rounding method", {"rounding"},
                [rounding |-> rounding], NoneObj)
    ELSE Rebuild([Take(self.components, prec + 1) EXCEPT
                     ![prec + 1] = IF self.components[prec + 2] > 0 THEN @ + 1 ELSE @],
                 prec, default, self.tzinfo)

\* the components kept by 'ceil' and by 'round' (components[prec] is components[prec + 1] here)
Ceil(components, prec) ==
    [Take(components, prec + 1) EXCEPT
        ![prec + 1] = IF components[prec + 2] > 0 THEN @ + 1 ELSE @]
Round(components, prec) ==
    [Take(components, prec + 1) EXCEPT
        ![prec + 1] = IF 2 * components[prec + 2] >= (IF prec = DAY THEN 24 ELSE 60) THEN @ + 1 ELSE @]

\* with_precision to a precision below the value's
Narrow(self, prec, default, rounding) ==
    IF rounding = "trunc" THEN Rebuild(Take(self.components, prec + 1), prec, default, self.tzinfo)
    ELSE IF rounding \notin {"ceil", "round"}
    THEN Raised("FDValueError", "Unknown rounding method", {"rounding"},
                [rounding |-> rounding], NoneObj)
    ELSE IF prec < DAY
    THEN Raised("FDValueError", "Rounding method is not defined for precision",
                {"rounding", "prec"}, [rounding |-> rounding, precision |-> PEnum(prec)], NoneObj)
    ELSE IF rounding = "ceil" THEN Rebuild(Ceil(self.components, prec), prec, default, self.tzinfo)
    ELSE Rebuild(Round(self.components, prec), prec, default, self.tzinfo)

\* Widen taking every component but the year from the default, present or not
OverwritesPresent(self, prec, default) ==
    Rebuild(Take(<<self.components[1], default.month, default.day, default.hour,
                   default.minute, default.second>>, prec + 1),
            prec, default, self.tzinfo)

\* with_precision to a precision above the value's, default a datetime
Widen(self, prec, default) ==
    Rebuild(Take(<<IF self.components[1] = None THEN default.year ELSE self.components[1],
                   IF self.components[2] = None THEN default.month ELSE self.components[2],
                   IF self.components[3] = None THEN default.day ELSE self.components[3],
                   IF self.components[4] = None THEN default.hour ELSE self.components[4],
                   IF self.components[5] = None THEN default.minute ELSE self.components[5],
                   IF self.components[6] = None THEN default.second ELSE self.components[6]>>,
                 prec + 1),
            prec, default, self.tzinfo)

\* with_precision once the precision is a member
Adjust(self, prec, default, rounding) ==
    IF prec = self.precision THEN Returned(self)
    ELSE IF prec < self.precision THEN Narrow(self, prec, default, rounding)
    ELSE Widen(self, prec,
               IF default = NoneObj
               THEN datetime(self.components[1], 1, 1, 0, 0, 0, NoneObj) ELSE default)

\* FuzzyDatetime.with_precision
with_precision(self, precision, default, rounding) ==
    IF IsStr(precision) /\ Named(precision) = <<>>
    THEN Raised("FDValueError", "Unknown precision", {"precision"},
                [input |-> precision.str], [kind |-> "KeyError"])
    ELSE Adjust(self, Named(precision)[1], default, rounding)

\* a timezone argument that is a str
TzText(text) == [text |-> text]

\* ensure_timezone once default_tz is an object: tz is what FlexiTimezone.parse gave
Ensured(self, tz) ==
    IF tz.kind # "ok" THEN tz ELSE New(self.components, tz.value, PEnum(self.precision))

\* FuzzyDatetime.ensure_timezone
ensure_timezone(self, default_tz) ==
    IF self.tzinfo # NoneObj THEN Returned(self)
    ELSE IF "text" \in DOMAIN default_tz
    THEN Ensured(self, FlexiTimezone_parse(default_tz.text, NoneFormats))
    ELSE New(self.components, default_tz, PEnum(self.precision))

\* FuzzyDatetime.to_datetime with no default
DefComponents == <<1, 1, 0, 0, 0>>
to_datetime(self) ==
    LET c == [i \in 1..NumPrecisions |->
                 IF i <= self.precision + 1 THEN self.components[i] ELSE DefComponents[i - 1]]
    IN  datetime(c[1], c[2], c[3], c[4], c[5], c[6], self.tzinfo)

\* as Shifted, with every component of the datetime kept
KeepsEveryComponent(self, dt) ==
    IF dt.kind # "ok" THEN dt
    ELSE New(<<dt.value.year, dt.value.month, dt.value.day, dt.value.hour, dt.value.minute,
               dt.value.second>>, self.tzinfo, NoneObj)

\* __add__ / __sub__ once the datetime arithmetic is done
Shifted(self, dt) ==
    IF dt.kind # "ok" THEN dt
    ELSE New(Take(<<dt.value.year, dt.value.month, dt.value.day, dt.value.hour, dt.value.minute,
                    dt.value.second>>, self.precision + 1),
             self.tzinfo, PEnum(self.precision))

\* FuzzyDatetime.__add__ and __sub__, other a timedelta
add(self, other) == Shifted(self, Shift(to_datetime(self), other))
sub(self, other) == Shifted(self, Shift(to_datetime(self), Negated(other)))

-----------------------------------------------------------------------------
(* FlexiTimezone: comparison, hashing and rendering.                       *)

\* what __eq__ returns: a truth value, or NotImplemented
NotImplemented == [not_implemented |-> TRUE]
Truth(b) == [value |-> b]

\* FlexiTimezone_eq comparing the offsets alone
OffsetOnlyEq(self, other) ==
    IF ~IsFlexiTimezone(other) THEN NotImplemented ELSE Truth(self.offset = other.offset)

\* FlexiTimezone.__eq__
FlexiTimezone_eq(self, other) ==
    IF ~IsFlexiTimezone(other) THEN NotImplemented
    ELSE Truth(/\ self.abbreviation = other.abbreviation
               /\ self.offset = other.offset
               /\ self.name = other.name)

\* self == other: when __eq__ gives NotImplemented on both sides the objects are compared
\* by identity, and the two are different objects
Equals(self, other) ==
    IF FlexiTimezone_eq(self, other) = NotImplemented THEN FALSE
    ELSE FlexiTimezone_eq(self, other).value

\* FlexiTimezone.__hash__: the hash of this tuple, kept as the tuple hashed
FlexiTimezone_hash(self) == <<self.abbreviation, self.offset, self.name>>

\* str(n) of a natural number, as text
DigitText(d) == <<"0", "1", "2", "3", "4", "5", "6", "7", "8", "9">>[d + 1]
RECURSIVE Str(_)
Str(n) == IF n < 10 THEN <<DigitText(n)>> ELSE Str(n \div 10) \o <<DigitText(n % 10)>>

\* f"{n:02}"
TwoDigits(n) == IF n < 10 THEN <<"0">> \o Str(n) ELSE Str(n)

Abs(n) == IF n < 0 THEN -n ELSE n

\* FlexiTimezone.format_offset
format_offset(self, utc_prefix, separator) ==
    (IF utc_prefix THEN <<"U", "T", "C">> ELSE <<>>)
    \o (IF self.offset < 0 THEN <<"-">> ELSE <<"+">>)
    \o TwoDigits(Abs(self.offset) \div 60) \o separator \o TwoDigits(Abs(self.offset) % 60)

\* the error of try_format when the loop ends without a return
NoneAvailable(self, tz_formats) ==
    Raised("FDValueError", "None of the formats available", {"tz_formats", "self"},
           [datetime |-> self, tz_formats |-> tz_formats], NoneObj)

\* TryEach giving up at the first format: a name or an abbreviation that the timezone
\* lacks ends the loop
StopsAtFirst(self, tz_formats, i) ==
    IF i > Len(tz_formats) THEN NoneAvailable(self, tz_formats)
    ELSE IF tz_formats[i] = "name" /\ self.name # <<>> THEN Returned(self.name)
    ELSE IF tz_formats[i] = "abbr" /\ self.abbreviation # <<>> THEN Returned(self.abbreviation)
    ELSE IF tz_formats[i] \in {"+hh:mm", "utc+hh:mm"}
    THEN Returned(format_offset(self, tz_formats[i] = "utc+hh:mm", <<":">>))
    ELSE IF tz_formats[i] \in {"+hhmm", "utc+hhmm"}
    THEN Returned(format_offset(self, tz_formats[i] = "utc+hhmm", <<>>))
    ELSE NoneAvailable(self, tz_formats)

\* the loop of try_format from the i-th format on
RECURSIVE TryEach(_, _, _)
TryEach(self, tz_formats, i) ==
    IF i > Len(tz_formats) THEN NoneAvailable(self, tz_formats)
    ELSE CASE tz_formats[i] = "name" ->
                  IF self.name # <<>> THEN Returned(self.name) ELSE TryEach(self, tz_formats, i + 1)
           [] tz_formats[i] = "abbr" ->
                  IF self.abbreviation # <<>> THEN Returned(self.abbreviation)
                  ELSE TryEach(self, tz_formats, i + 1)
           [] tz_formats[i] = "+hh:mm" -> Returned(format_offset(self, FALSE, <<":">>))
           [] tz_formats[i] = "+hhmm" -> Returned(format_offset(self, FALSE, <<>>))
           [] tz_formats[i] = "utc+hh:mm" -> Returned(format_offset(self, TRUE, <<":">>))
           [] tz_formats[i] = "utc+hhmm" -> Returned(format_offset(self, TRUE, <<>>))
           [] OTHER ->
                  Raised("FDValueError", "Unknown tz_format", {"tz_format"},
                         [datetime |-> self, tz_format |-> tz_formats[i]], NoneObj)

\* FlexiTimezone.try_format; tz_formats is [str |-> one format], [seq |-> formats in
\* order] or [other |-> a value that is neither a str nor a Sequence]
try_format(self, tz_formats) ==
    IF "str" \in DOMAIN tz_formats THEN TryEach(self, <<tz_formats.str>>, 1)
    ELSE IF "seq" \notin DOMAIN tz_formats
    THEN Raised("FDTypeError", "Invalid type for tz_formats", {"type(tz_formats)"},
                [tz_formats |-> tz_formats], NoneObj)
    ELSE TryEach(self, tz_formats.seq, 1)

-----------------------------------------------------------------------------
(* flex_datetime: Timezone.parse and FlexDatetime.apply_timezone.  The     *)
(* table is the one of fuzzy_datetime; a FlexDatetime is                    *)
(* [precision, components, tz], built without any check.                    *)

UpperChar(c) ==
    IF \E i \in DOMAIN LowerSeq : LowerSeq[i] = c
    THEN UpperSeq[CHOOSE i \in DOMAIN LowerSeq : LowerSeq[i] = c]
    ELSE c
Upper(s) == [i \in DOMAIN s |-> UpperChar(s[i])]

\* Timezone(offset, abbreviation, name)
Timezone(offset, abbreviation, name) ==
    [offset |-> offset, abbreviation |-> abbreviation, name |-> name]

\* Timezone.AllTimezonesByAbbr = { tz.abbreviation: tz for tz in AllTimezones.values() }
Timezone_AllTimezonesByAbbr(map, byName) ==
    LET first(k) == CHOOSE i \in DOMAIN map :
                        /\ Lower(map[i].name) = k
                        /\ \A j \in DOMAIN map : Lower(map[j].name) = k => i <= j
        keys == {byName[k].abbreviation : k \in DOMAIN byName}
        last(a) == CHOOSE k \in DOMAIN byName :
                       /\ byName[k].abbreviation = a
                       /\ \A h \in DOMAIN byName :
                              byName[h].abbreviation = a => first(h) <= first(k)
    IN  [a \in keys |-> byName[last(a)]]

\* re.match(r"^([+-])(\d{1,2}):?(\d{1,2})$", t): the hours and the minutes matched, as
\* <<hours, minutes>>, or <<>>; a final newline is left out by $
SignedDigits(t) ==
    LET u == IF Len(t) > 0 /\ t[Len(t)] = "\n" THEN SubSeq(t, 1, Len(t) - 1) ELSE t
        r == IF Len(u) > 0 THEN Tail(u) ELSE <<>>
        colons == {i \in DOMAIN r : r[i] = ":"}
        digits(d) == Len(d) \in 1..2 /\ \A i \in DOMAIN d : IsDigit(d[i])
        split(i) == <<SubSeq(r, 1, i), SubSeq(r, i + 1 + (IF i + 1 \in colons THEN 1 ELSE 0), Len(r))>>
        ways == {i \in 1..2 : i <= Len(r) /\ digits(split(i)[1]) /\ digits(split(i)[2])}
    IN  IF Len(u) = 0 \/ u[1] \notin {"+", "-"} \/ ways = {} THEN <<>>
        ELSE split(CHOOSE i \in ways : \A j \in ways : j <= i)

\* Timezone.parse after the lookups: the offset written
Timezone_offset(s, t) ==
    IF SignedDigits(t) = <<>>
    THEN Raised("FDInvalidFormatError", "Unknown timezone format", {"s"}, [input |-> s], NoneObj)
    ELSE Returned(Timezone((IF t[1] = "-" THEN -1 ELSE 1)
                               * (IntOf(SignedDigits(t)[1]) * 60 + IntOf(SignedDigits(t)[2])),
                           <<>>, <<>>))

\* Timezone.parse
Timezone_parse(s, byName, byAbbr) ==
    IF Lower(s) \in DOMAIN byName THEN Returned(byName[Lower(s)])
    ELSE IF Upper(s) = <<"Z">>
    THEN (IF <<"U", "T", "C">> \in DOMAIN byAbbr THEN Returned(byAbbr[<<"U", "T", "C">>])
          ELSE Raised("KeyError", "UTC", {}, <<>>, NoneObj))
    ELSE IF Upper(s) \in DOMAIN byAbbr THEN Returned(byAbbr[Upper(s)])
    ELSE Timezone_offset(s, Upper(s))

\* FlexDatetime(precision, year, ..., tz): the fields are stored as given
FlexDatetime(precision, components, tz) ==
    [precision |-> precision, components |-> components, tz |-> tz]

\* as AppliedTimezone, the timezone given replacing the one held
Overwritten(self, tz) ==
    IF tz.kind # "ok" THEN tz
    ELSE Returned(FlexDatetime(self.precision, self.components, tz.value))

\* FlexDatetime.apply_timezone, tz being what Timezone.parse gave or the object passed
AppliedTimezone(self, tz) ==
    IF self.tz # NoneObj THEN Returned(self)
    ELSE IF tz.kind # "ok" THEN tz
    ELSE Returned(FlexDatetime(self.precision, self.components, tz.value))

\* FlexDatetime.apply_timezone
apply_timezone(self, tz) ==
    AppliedTimezone(self,
                    IF "text" \in DOMAIN tz
                    THEN Timezone_parse(tz.text, BuildAllTimezones(TZ_MAP),
                                        Timezone_AllTimezonesByAbbr(TZ_MAP, BuildAllTimezones(TZ_MAP)))
                    ELSE Returned(tz))

-----------------------------------------------------------------------------
(* FuzzyDatetime: rendering.                                               *)

\* _pad: str(val).zfill(length), val a natural number
RECURSIVE zfill(_, _)
zfill(s, length) == IF Len(s) >= length THEN s ELSE zfill(<<"0">> \o s, length)
pad(val, length) == zfill(Str(val), length)

\* as ComponentText, never padded
Unpadded(self, zero_pad, i) == Str(self.components[i])

\* the text of component i (1 the year) in to_string
ComponentText(self, zero_pad, i) ==
    IF zero_pad THEN pad(self.components[i], IF i = 1 THEN 4 ELSE 2) ELSE Str(self.components[i])

\* out after the loop of to_string has gone over the first n of component_configs
RECURSIVE Assembled(_, _, _, _)
Assembled(self, zero_pad, seps, n) ==
    IF n = 0 THEN ComponentText(self, zero_pad, 1)
    ELSE Assembled(self, zero_pad, seps, n - 1) \o seps[n] \o ComponentText(self, zero_pad, n + 1)

\* to_string once out is assembled: the timezone, when there is one that renders as text
WithTzText(self, out, tz_formats) ==
    IF self.tzinfo = NoneObj THEN Returned(out)
    ELSE LET tz_str == try_format(self.tzinfo, tz_formats)
         IN  IF tz_str.kind # "ok" THEN tz_str
             ELSE IF tz_str.value = <<>> THEN Returned(out)
             ELSE Returned(out \o <<" ">> \o tz_str.value)

\* FuzzyDatetime.to_string
to_string(self, zero_pad, date_sep, time_sep, tz_formats) ==
    WithTzText(self,
               Assembled(self, zero_pad, <<date_sep, date_sep, <<" ">>, time_sep, time_sep>>,
                         self.precision),
               tz_formats)

-----------------------------------------------------------------------------
(* The texts handed to the parsers.  A text is spelled from what its       *)
(* writer put down: the digits of each component (<<>> when the component  *)
(* is left out), the separators, the timezone token and the space before   *)
(* it.  A component left out while a deeper one is written is a hole: with *)
(* holes = "keep" its separator still stands ("9::7"), with "drop" it      *)
(* leaves nothing.                                                         *)

Written(y, s1, m, s2, d, dt, h, s3, mi, s4, s, sp, tz, tail, holes) ==
    [year |-> y, sep1 |-> s1, month |-> m, sep2 |-> s2, day |-> d, dtsep |-> dt, hour |-> h,
     sep3 |-> s3, minute |-> mi, sep4 |-> s4, second |-> s, sp |-> sp, tz |-> tz,
     tail |-> tail, holes |-> holes]

\* the digits of the six components, year first
Parts(w) == <<w.year, w.month, w.day, w.hour, w.minute, w.second>>
\* the deepest component written (0-based, as a DatePrecision), -1 when none is
DeepestWritten(w) ==
    LET there == {i \in 0..5 : Parts(w)[i + 1] # <<>>}
    IN  IF there = {} THEN -1 ELSE CHOOSE i \in there : \A k \in there : k <= i
\* a component is written while a more significant one is not
HasHole(w) == \E i \in 0..5 : i < DeepestWritten(w) /\ Parts(w)[i + 1] = <<>>
\* the number written for component i (0-based), None when it is left out
WrittenValue(w, i) == IF Parts(w)[i + 1] = <<>> THEN None ELSE IntOf(Parts(w)[i + 1])

Spell(w) ==
    LET seg(sep, i) == IF Parts(w)[i + 1] # <<>> THEN sep \o Parts(w)[i + 1]
                       ELSE IF w.holes = "keep" /\ i < DeepestWritten(w) THEN sep
                       ELSE <<>>
    IN  w.year \o seg(w.sep1, 1) \o seg(w.sep2, 2) \o seg(w.dtsep, 3) \o seg(w.sep3, 4)
        \o seg(w.sep4, 5) \o (IF w.tz # <<>> THEN w.sp \o w.tz ELSE <<>>) \o w.tail

Opt(S) == S \cup {<<>>}
Plain(y, m, d, h, mi, s) ==
    Written(y, <<"/">>, m, <<"/">>, d, <<" ">>, h, <<":">>, mi, <<":">>, s, <<>>, <<>>, <<>>, "drop")

Years == {<<"0", "0", "0", "0">>, <<"1", "9", "0", "0">>, <<"2", "0", "0", "0">>,
          <<"2", "0", "2", "0">>, <<"2", "0", "2", "1">>, <<"9", "9", "9", "9">>}
Months == {<<"0">>, <<"2">>, <<"0", "2">>, <<"4">>, <<"1", "2">>, <<"1", "3">>}
Days == {<<"0">>, <<"0", "1">>, <<"2", "8">>, <<"2", "9">>, <<"3", "0">>, <<"3", "1">>, <<"3", "2">>}
Hours == {<<"0">>, <<"0", "9">>, <<"2", "3">>, <<"2", "4">>}
Minutes == {<<"5">>, <<"5", "9">>, <<"6", "0">>}
Seconds == {<<"0", "7">>, <<"5", "9">>, <<"6", "0">>}

\* dates of every range case; times of every range case after a few dates
DateTexts ==
    {w \in {Plain(y, m, d, <<>>, <<>>, <<>>) : y \in Years, m \in Opt(Months), d \in Opt(Days)} :
        ~HasHole(w)}
TimeTexts ==
    {w \in {Plain(ymd[1], ymd[2], ymd[3], h, mi, s) :
                ymd \in {<<<<"2", "0", "2", "0">>, <<"2">>, <<"2", "9">>>>,
                         <<<<"2", "0", "2", "1">>, <<"1", "3">>, <<"3", "2">>>>,
                         <<<<"0", "0", "0", "0">>, <<"4">>, <<"3", "1">>>>},
                h \in Hours, mi \in Opt(Minutes), s \in Opt(Seconds)} :
        ~HasHole(w)}

Y2023 == <<"2", "0", "2", "3">>
DateSeps == {<<"/">>, <<".">>, <<"-">>}
TimeSeps == {<<":">>, <<".">>, <<"-">>}
\* "2023/4/1 9:5:7" under every choice of separators, cut at every precision
SepTexts ==
    {w \in {Written(Y2023, s1, m, s2, d, dt, h, s3, mi, s4, s, <<>>, <<>>, <<>>, "drop") :
                s1 \in DateSeps, s2 \in DateSeps, dt \in {<<" ">>, <<"T">>},
                s3 \in TimeSeps, s4 \in TimeSeps,
                m \in Opt({<<"4">>}), d \in Opt({<<"1">>}), h \in Opt({<<"9">>}),
                mi \in Opt({<<"5">>}), s \in Opt({<<"7">>})} :
        /\ ~HasHole(w)
        /\ (w.day = <<>> => w.sep2 = <<"/">>) /\ (w.hour = <<>> => w.dtsep = <<" ">>)
        /\ (w.minute = <<>> => w.sep3 = <<":">>) /\ (w.second = <<>> => w.sep4 = <<":">>)
        /\ w.month # <<>>}

\* the same digits with every pattern of holes
HoleTexts ==
    {w \in {Written(y, <<"/">>, m, <<"/">>, d, dt, h, s3, mi, s3, s, <<>>, <<>>, <<>>, holes) :
                y \in Opt({Y2023}), m \in Opt({<<"4">>}), d \in Opt({<<"1">>}),
                dt \in {<<" ">>, <<"T">>}, h \in Opt({<<"9">>}), s3 \in TimeSeps,
                mi \in Opt({<<"5">>}), s \in Opt({<<"7">>}), holes \in {"keep", "drop"}} :
        /\ HasHole(w)
        /\ (w.hour = <<>> /\ w.minute = <<>> /\ w.second = <<>>) => (w.dtsep = <<" ">> /\ w.sep3 = <<":">>)
        \* dropped, only a hole between the date and the time shows in the text
        /\ w.holes = "drop" => (w.hour # <<>> /\ (w.minute # <<>> \/ w.second = <<>>))}

TzTokens == {
    <<"J", "S", "T">>, <<"j", "s", "t">>, <<"Z">>, <<"z">>, <<"U", "T", "C">>, <<"E", "S", "T">>,
    <<"A", "s", "i", "a", "/", "T", "o", "k", "y", "o">>,
    <<"+", "0", "9", ":", "0", "0">>, <<"+", "9", ":", "3", "0">>, <<"-", "5", ":", "5">>,
    <<"+", "9">>, <<"+", "0", "9">>, <<"+", "9", "0", "0">>, <<"-", "0", "5", "0", "0">>,
    <<"U", "T", "C", "+", "9">>, <<"u", "t", "c", "-", "0", "5", ":", "0", "0">>,
    <<"U", "T", "C", "+", "0", "9", "0", "0">>,
    <<"+", "9", "9", ":", "9", "9">>, <<"+", "1", "2", "3", "4", "5">>, <<"+", "9", ":">>,
    <<"X", "Y", "Z">>, <<"U", "T", "C", "9">>, <<"+">>, <<"9">>, <<":", "3", "0">>,
    <<"J", "S", "T", "+", "9">>}

\* "2023/4/1 9", "2023/4/1 9:5" and "2023/4/1 9:5:7" followed by a timezone token.  A token
\* joined without a space starts with neither a digit nor a time separator: else the grammar
\* reads its start as part of the time.
TzTexts ==
    {w \in {Written(Y2023, <<"/">>, <<"4">>, <<"/">>, <<"1">>, <<" ">>, <<"9">>, <<":">>, mi,
                    <<":">>, s, sp, tz, <<>>, "drop") :
                mi \in Opt({<<"5">>}), s \in Opt({<<"7">>}),
                sp \in {<<>>, <<" ">>, <<"\t">>}, tz \in TzTokens} :
        /\ ~HasHole(w)
        /\ w.sp = <<>> => ~(IsDigit(w.tz[1]) \/ IsTimeSep(w.tz[1]))}

\* a date and a time ended by a newline, and a date ended by the "T" that DATE_REG allows
TailTexts ==
    {w \in {Written(Y2023, <<"/">>, <<"4">>, <<"/">>, <<"1">>, <<" ">>, h, <<":">>, <<>>, <<":">>,
                    <<>>, <<" ">>, tz, tail, "drop") :
                h \in Opt({<<"9">>}), tz \in Opt({<<"J", "S", "T">>}),
                tail \in {<<"\n">>, <<"T">>, <<"T", "\n">>}} :
        /\ w.tz = <<>> \/ w.hour # <<>>
        /\ w.tail # <<"\n">> => (w.tz = <<>> /\ w.hour = <<>>)}

\* "2023/13/1 24:5" with one or two date separators, with and without a timezone: month and
\* hour out of range whatever else the call trips over
RangeTexts ==
    {w \in {Written(Y2023, <<"/">>, <<"1", "3">>, s2, <<"1">>, <<" ">>, h, <<":">>, mi, <<":">>,
                    <<>>, <<" ">>, tz, <<>>, "drop") :
                s2 \in {<<"/">>, <<"-">>}, h \in Opt({<<"2", "4">>}), mi \in Opt({<<"5">>}),
                tz \in Opt({<<"J", "S", "T">>, <<"X", "Y", "Z">>})} :
        ~HasHole(w) /\ (w.tz # <<>> => w.hour # <<>>)}

\* precision_required: names, members, an unknown name, the empty name and None
PrecisionArgs ==
    {PStr(PrecisionNames[i]) : i \in DOMAIN PrecisionNames}
    \cup {PEnum(i) : i \in YEAR..SECOND} \cup {PStr("century"), PStr(""), NoneObj}

AllowedArgs == {NoneFormats, {"none"}, {"abbr", "none"}, {"name", "z", "+hh:mm"},
                {"+hhmm", "utc+hh:mm", "utc+hhmm", "none"}, AllTzFormats}

Call(w, pr, sd, st, al) ==
    [written |-> w, source |-> Spell(w), precision_required |-> pr, same_date_sep |-> sd,
     same_time_sep |-> st, allowed_tz_formats |-> al]

\* the calls of the parsers that are drawn
ParseCalls ==
    {Call(w, PStr("year"), FALSE, FALSE, NoneFormats) : w \in DateTexts \cup TimeTexts \cup TailTexts}
    \cup {Call(w, pr, sd, st, NoneFormats) :
              w \in SepTexts, pr \in {PStr("year"), PStr("second")}, sd \in BOOLEAN, st \in BOOLEAN}
    \cup {Call(w, pr, sd, FALSE, NoneFormats) :
              w \in HoleTexts, pr \in {PStr("year"), PStr("hour")}, sd \in BOOLEAN}
    \cup {Call(w, pr, FALSE, FALSE, al) :
              w \in TzTexts, pr \in {PStr("year"), PStr("second")}, al \in AllowedArgs}
    \cup {Call(w, pr, sd, FALSE, al) :
              w \in {x \in SepTexts : x.sep1 = <<"/">> /\ x.sep3 = <<":">> /\ x.sep4 = <<":">>
                                      /\ x.dtsep = <<" ">>},
              pr \in PrecisionArgs, sd \in BOOLEAN, al \in {NoneFormats, {"abbr"}}}
    \cup {Call(w, pr, FALSE, FALSE, NoneFormats) :
              w \in {x \in HoleTexts : x.dtsep = <<" ">> /\ x.sep3 = <<":">>}, pr \in PrecisionArgs}
    \cup {Call(w, pr, sd, FALSE, al) :
              w \in RangeTexts, pr \in {PStr("year"), PStr("second"), PStr("century")},
              sd \in BOOLEAN, al \in {NoneFormats, {"abbr"}}}

-----------------------------------------------------------------------------
(* State.  The registry indexes are built when tz.py is imported.          *)

Registry ==
    /\ all_timezones = BuildAllTimezones(TZ_MAP)
    /\ all_timezones_by_abbr = BuildAllTimezonesByAbbr(TZ_MAP, BuildAllTimezones(TZ_MAP))

\* a call of FuzzyDatetime.parse, FuzzyDatetime.parse_date or FuzzyDatetime(...) is pending
InitParse ==
    /\ Registry
    /\ pc = "call" /\ op = "none" /\ ret = NoCall /\ cur = NoneObj /\ nops = 0
    /\ args \in ParseCalls

Parse ==
    /\ pc = "call" /\ "source" \in DOMAIN args
    /\ ret' = parse(args.source, args.precision_required, args.same_date_sep, args.same_time_sep,
                    args.allowed_tz_formats)
    /\ cur' = ret'.value
    /\ pc' = "done" /\ op' = "parse"
    /\ UNCHANGED <<args, nops, all_timezones, all_timezones_by_abbr>>

ParseDate ==
    /\ pc = "call" /\ "source" \in DOMAIN args
    /\ ret' = parse_date(args.source, args.precision_required, args.same_date_sep)
    /\ cur' = ret'.value
    /\ pc' = "done" /\ op' = "parse_date"
    /\ UNCHANGED <<args, nops, all_timezones, all_timezones_by_abbr>>

\* FuzzyDatetime(year, month, ...) with the numbers written, no timezone, precision inferred
Construct ==
    /\ pc = "call" /\ "source" \in DOMAIN args
    /\ LET w == args.written
       IN  ret' = FuzzyDatetime(WrittenValue(w, 0), WrittenValue(w, 1), WrittenValue(w, 2),
                                WrittenValue(w, 3), WrittenValue(w, 4), WrittenValue(w, 5),
                                NoneObj, NoneObj)
    /\ cur' = ret'.value
    /\ pc' = "done" /\ op' = "construct"
    /\ UNCHANGED <<args, nops, all_timezones, all_timezones_by_abbr>>

NextParse == Parse \/ ParseDate \/ Construct
SpecParse == InitParse /\ [][NextParse]_vars

-----------------------------------------------------------------------------
(* FlexiTimezone.parse on its own: a token and a set of allowed forms.     *)

\* tokens of every form, in both cases, and tokens of no form
TzInputs ==
    TzTokens \cup {
        <<"u", "t", "c">>, <<"e", "s", "t">>, <<"K", "S", "T">>,
        <<"a", "s", "i", "a", "/", "s", "e", "o", "u", "l">>,
        <<"+", "0">>, <<"-", "0", "0", ":", "0", "0">>, <<"+", "1", "2", "3">>, <<"-", "1", "2", "3">>,
        <<"-", "1", "2", ":", "3">>, <<"+", "1", ":", "2", "3", "4">>,
        <<"u", "t", "c", "+", "1", ":", "2">>, <<"U", "t", "c", "-", "1", "2", "3", "4">>,
        <<"U", "T", "C", "+">>, <<"G", "M", "T">>, <<"+", "9", "\n">>, <<>>}

\* allowed_formats: None, every single form, and some mixed sets
TzAllowedArgs ==
    {NoneFormats, {}} \cup {{f} : f \in AllTzFormats}
    \cup {{"name", "abbr"}, {"abbr", "z"}, AllTzFormats \ {"name"}, AllTzFormats \ {"abbr"}}

TzCalls == {[token |-> tk, allowed_formats |-> al] : tk \in TzInputs, al \in TzAllowedArgs}

InitTz ==
    /\ Registry
    /\ pc = "call" /\ op = "none" /\ ret = NoCall /\ cur = NoneObj /\ nops = 0
    /\ args \in TzCalls

TzParse ==
    /\ pc = "call" /\ "token" \in DOMAIN args
    /\ ret' = FlexiTimezone_parse(args.token, args.allowed_formats)
    /\ pc' = "done" /\ op' = "tz_parse"
    /\ UNCHANGED <<args, cur, nops, all_timezones, all_timezones_by_abbr>>

\* what the timezone returned is compared with: the timezones of these tokens, and a
\* tzinfo of another class
TzOthers == {<<"J", "S", "T">>, <<"+", "0", "9", ":", "0", "0">>, <<"+", "9">>,
             <<"A", "s", "i", "a", "/", "T", "o", "k", "y", "o">>, <<"K", "S", "T">>,
             <<"Z">>, <<"U", "T", "C">>, <<"-", "0", "5", "0", "0">>}
TzOperands == {FlexiTimezone_parse(tk, NoneFormats).value : tk \in TzOthers} \cup {ForeignTz}

\* the ranked lists handed to try_format: every list of up to two of the six forms and of
\* an unknown one, some longer lists, a single str, and a set
TzFormNames == AllTzFormats \ {"z"}
TzFormatLists ==
    {[seq |-> <<>>]}
    \cup {[seq |-> <<f>>] : f \in TzFormNames \cup {"iso"}}
    \cup {[seq |-> <<f, h>>] : f \in TzFormNames \cup {"iso"}, h \in TzFormNames \cup {"iso"}}
    \cup {[seq |-> <<"name", "abbr", "utc+hh:mm">>], [seq |-> <<"abbr", "name", "+hhmm">>],
          [seq |-> <<"name", "abbr", "iso">>], [seq |-> <<"abbr", "name", "abbr">>]}
    \cup {[str |-> f] : f \in {"name", "+hh:mm", "iso"}}
    \cup {[other |-> {"name"}]}

\* the timezone that FlexiTimezone.parse returned is compared with another and hashed
TzEq ==
    /\ pc = "done" /\ op = "tz_parse" /\ ret.kind = "ok"
    /\ \E other \in TzOperands :
           /\ args' = [token |-> args.token, allowed_formats |-> args.allowed_formats,
                       other |-> other]
           /\ ret' = Returned([equal |-> Equals(ret.value, other),
                               eq |-> FlexiTimezone_eq(ret.value, other),
                               hash |-> FlexiTimezone_hash(ret.value),
                               other_hash |-> IF IsFlexiTimezone(other)
                                              THEN FlexiTimezone_hash(other) ELSE <<>>])
    /\ cur' = ret.value
    /\ pc' = "used" /\ op' = "tz_eq"
    /\ UNCHANGED <<nops, all_timezones, all_timezones_by_abbr>>

\* the timezone that FlexiTimezone.parse returned is rendered by try_format
TzTryFormat ==
    /\ pc = "done" /\ op = "tz_parse" /\ ret.kind = "ok"
    /\ \E tz_formats \in TzFormatLists :
           /\ args' = [token |-> args.token, allowed_formats |-> args.allowed_formats,
                       tz_formats |-> tz_formats]
           /\ ret' = try_format(ret.value, tz_formats)
    /\ cur' = ret.value
    /\ pc' = "used" /\ op' = "try_format"
    /\ UNCHANGED <<nops, all_timezones, all_timezones_by_abbr>>

NextTz == TzParse \/ TzEq \/ TzTryFormat
SpecTz == InitTz /\ [][NextTz]_vars

-----------------------------------------------------------------------------
(* The life of a value: the caller makes one, then applies operations to   *)
(* the value it holds, keeping the result when there is one.               *)

\* operations applied in one life
MaxOps == 3

JST == FlexiTimezone(540, <<"J", "S", "T">>, <<"A", "s", "i", "a", "/", "T", "o", "k", "y", "o">>)

LiveTexts == {
    <<"2", "0", "2", "0">>,
    <<"2", "0", "2", "0", "/", "0", "2", "/", "2", "9">>,
    <<"2", "0", "2", "1", "/", "0", "2", "/", "2", "9">>,
    <<"2", "0", "2", "3", "/", "4", "/", "1", " ", "9", ":", "5", " ", "J", "S", "T">>,
    <<"9", "9", "9", "9", "-", "1", "2", "-", "3", "1", "T", "2", "3", ":", "5", "9", ":", "5", "9">>}

\* the arguments of FuzzyDatetime(...): the six components, tzinfo and precision
LiveConstructions == {
    [components |-> <<2020, 5, None, None, None, None>>, tzinfo |-> NoneObj, precision |-> NoneObj],
    [components |-> <<2020, 5, 1, None, None, None>>, tzinfo |-> JST, precision |-> PStr("second")],
    [components |-> <<2020, 5, 1, None, 30, None>>, tzinfo |-> NoneObj, precision |-> NoneObj],
    [components |-> <<2020, 5, None, None, None, None>>, tzinfo |-> NoneObj, precision |-> PEnum(YEAR)],
    [components |-> <<2020, 5, 1, None, None, None>>, tzinfo |-> NoneObj, precision |-> PEnum(MONTH)],
    [components |-> <<2020, None, 5, None, None, None>>, tzinfo |-> NoneObj, precision |-> NoneObj],
    [components |-> <<1, 1, 1, 0, 0, 0>>, tzinfo |-> NoneObj, precision |-> PStr("century")]}

LiveDatetimes == {date(2020, 2, 29), datetime(2020, 1, 1, 0, 0, 0, NoneObj), TzText(<<"2", "0", "2", "0">>)}

LiveKwargs == {[day |-> 31], [minute |-> 5], [second |-> None], [month |-> None], [hour |-> 24],
               [tzinfo |-> JST], [year |-> 2021, month |-> 2]}

LiveDefaults == {NoneObj, datetime(2001, 3, 15, 4, 5, 6, NoneObj),
                 datetime(2000, 2, 29, 23, 59, 59, JST)}
LiveRoundings == {"trunc", "ceil", "round"}
LivePrecisions == {PStr(PrecisionNames[i]) : i \in DOMAIN PrecisionNames} \cup {PStr("week")}

LiveTimezones == {TzText(<<"J", "S", "T">>), TzText(<<"X", "Y", "Z">>), FlexiTimezone(-300, <<>>, <<>>),
                  NoneObj}

LiveDeltas == {timedelta(0, 1), timedelta(0, 3600), timedelta(1, 0), timedelta(31, 0),
               timedelta(366, 0)}

\* the value the caller holds after a call
Held(r) == IF r.kind = "ok" THEN r.value ELSE cur

Init ==
    /\ Registry
    /\ pc = "live" /\ op = "none" /\ args = <<>> /\ ret = NoCall /\ cur = NoneObj /\ nops = 0

\* a step of a life may be taken
Live == pc = "live" /\ nops < MaxOps

\* what every step of a life does besides its call
Step(name, a, r) ==
    /\ op' = name /\ args' = a /\ ret' = r /\ cur' = Held(r) /\ nops' = nops + 1
    /\ UNCHANGED <<pc, all_timezones, all_timezones_by_abbr>>

DoParse ==
    /\ Live
    /\ \E source \in LiveTexts :
           Step("parse", [source |-> source],
                parse(source, PStr("year"), FALSE, FALSE, NoneFormats))

DoParseDate ==
    /\ Live
    /\ \E source \in LiveTexts :
           Step("parse_date", [source |-> source], parse_date(source, PStr("year"), FALSE))

DoConstruct ==
    /\ Live
    /\ \E a \in LiveConstructions :
           Step("construct", a, New(a.components, a.tzinfo, a.precision))

DoFromDatetime ==
    /\ Live
    /\ \E dt \in LiveDatetimes : Step("from_datetime", [dt |-> dt], from_datetime(dt))

DoReplace ==
    /\ Live /\ cur # NoneObj
    /\ \E kwargs \in LiveKwargs : Step("replace", [kwargs |-> kwargs], replace(cur, kwargs))

DoWithPrecision ==
    /\ Live /\ cur # NoneObj
    /\ \E precision \in LivePrecisions, default \in LiveDefaults, rounding \in LiveRoundings :
           Step("with_precision",
                [precision |-> precision, default |-> default, rounding |-> rounding],
                with_precision(cur, precision, default, rounding))

DoEnsureTimezone ==
    /\ Live /\ cur # NoneObj
    /\ \E default_tz \in LiveTimezones :
           Step("ensure_timezone", [default_tz |-> default_tz], ensure_timezone(cur, default_tz))

DoAdd ==
    /\ Live /\ cur # NoneObj
    /\ \E other \in LiveDeltas : Step("add", [other |-> other], add(cur, other))

DoSub ==
    /\ Live /\ cur # NoneObj
    /\ \E other \in LiveDeltas : Step("sub", [other |-> other], sub(cur, other))

\* what a step on the registry does besides its call: the value held stays
TzStep(name, a, r) ==
    /\ op' = name /\ args' = a /\ ret' = r /\ nops' = nops + 1
    /\ UNCHANGED <<pc, cur, all_timezones, all_timezones_by_abbr>>

LiveTokens == {<<"J", "S", "T">>, <<"a", "s", "i", "a", "/", "s", "e", "o", "u", "l">>,
               <<"+", "9", ":", "3", "0">>, <<"X", "Y", "Z">>}

DoTzParse ==
    /\ Live
    /\ \E s \in LiveTokens, allowed \in {NoneFormats, {"abbr"}} :
           TzStep("tz_parse", [token |-> s, allowed_formats |-> allowed], FlexiTimezone_parse(s, allowed))

DoByAbbr ==
    /\ Live
    /\ \E abbr \in LiveTokens : TzStep("by_abbr", [abbr |-> abbr], by_abbr(abbr))

DoByName ==
    /\ Live
    /\ \E name \in LiveTokens : TzStep("by_name", [name |-> name], by_name(name))

\* try_format of a timezone of the registry, or of the value held
DoTryFormat ==
    /\ Live
    /\ \E tz \in {all_timezones[k] : k \in DOMAIN all_timezones}
                  \cup (IF cur # NoneObj /\ cur.tzinfo # NoneObj THEN {cur.tzinfo} ELSE {}),
          tz_formats \in {[seq |-> <<"abbr", "+hh:mm">>], [seq |-> <<"iso">>], [seq |-> <<>>]} :
           TzStep("try_format", [self |-> tz, tz_formats |-> tz_formats], try_format(tz, tz_formats))

Next ==
    \/ DoParse \/ DoParseDate \/ DoConstruct \/ DoFromDatetime
    \/ DoReplace \/ DoWithPrecision \/ DoEnsureTimezone \/ DoAdd \/ DoSub
    \/ DoTzParse \/ DoByAbbr \/ DoByName \/ DoTryFormat

Spec == Init /\ [][Next]_vars

-----------------------------------------------------------------------------
(* One operation on one value: the receiver is a value that the            *)
(* constructor built, the operation and its arguments are the drawn call.  *)

\* the components of the receivers: around the midpoints, the ends of the ranges and zero
ValueDates == {<<2023, 2, 1>>, <<2023, 12, 1>>, <<2023, 12, 31>>}
ValueHours == {0, 11, 12, 23}
ValueMinutes == {0, 29, 30, 59}
ValueSeconds == {0, 7, 30}
ValueComponents ==
    {<<d[1], None, None, None, None, None>> : d \in ValueDates}
    \cup {<<d[1], d[2], None, None, None, None>> : d \in ValueDates}
    \cup {<<d[1], d[2], d[3], None, None, None>> : d \in ValueDates}
    \cup {<<d[1], d[2], d[3], h, None, None>> : d \in ValueDates, h \in ValueHours}
    \cup {<<d[1], d[2], d[3], h, mi, None>> : d \in ValueDates, h \in ValueHours, mi \in ValueMinutes}
    \cup {<<d[1], d[2], d[3], h, mi, s>> :
              d \in ValueDates, h \in ValueHours, mi \in ValueMinutes, s \in ValueSeconds}

\* FuzzyDatetime(*components, tzinfo=tz), for the values it returns
Receivers ==
    {r.value : r \in {x \in {New(c, tz, NoneObj) : c \in ValueComponents, tz \in {NoneObj, JST}} :
                          x.kind = "ok"}}

\* the arguments of with_precision
ValuePrecisions == {PStr(PrecisionNames[i]) : i \in DOMAIN PrecisionNames} \cup {PStr("week")}
ValueDefaults == {NoneObj, datetime(2001, 3, 15, 4, 5, 6, NoneObj),
                  datetime(2000, 2, 29, 22, 58, 57, FlexiTimezone(-300, <<>>, <<>>)),
                  datetime(2001, 3, 15, 4, 5, 6, ForeignTz)}
ValueRoundings == {"trunc", "ceil", "round", "floor"}

WithPrecisionCalls ==
    {[self |-> self, precision |-> precision, default |-> default, rounding |-> rounding] :
         self \in Receivers, precision \in ValuePrecisions, default \in ValueDefaults,
         rounding \in ValueRoundings}

\* the durations added and subtracted: a second, half a minute, an hour, a second less than
\* a day, a day, a month, a year, a negative second, and more than the calendar holds
ValueDeltas == {timedelta(0, 1), timedelta(0, 30), timedelta(0, 3600), timedelta(0, 86399),
                timedelta(1, 0), timedelta(31, 0), timedelta(365, 0), timedelta(0, -1),
                timedelta(700000, 0), timedelta(3000000, 0)}

ArithmeticCalls == {[self |-> self, other |-> other] : self \in Receivers, other \in ValueDeltas}

\* the texts parsed into the values that are rendered: "2023/4/1 9:5:7" cut at every
\* precision, and "2023/4/1 9:5" and "2023/4/1 9:5:7" followed by a timezone
ValueTexts ==
    {w \in SepTexts : /\ w.sep1 = <<"/">> /\ w.sep2 = <<"/">> /\ w.dtsep = <<" ">>
                      /\ w.sep3 = <<":">> /\ w.sep4 = <<":">>}
    \cup {w \in TzTexts : /\ w.minute # <<>> /\ w.sp = <<" ">>
                          /\ w.tz \in {<<"J", "S", "T">>, <<"+", "0", "9", ":", "0", "0">>,
                                        <<"A", "s", "i", "a", "/", "T", "o", "k", "y", "o">>,
                                        <<"Z">>, <<"-", "0", "5", "0", "0">>, <<"X", "Y", "Z">>}}
\* texts rendered and parsed again: early and late years, and every timezone token
RoundTripTexts ==
    {Plain(y, <<"4">>, <<"1">>, h, <<>>, <<>>) :
         y \in {<<"0", "0", "0", "1">>, <<"0", "1", "0", "6">>, <<"9", "9", "9", "9">>},
         h \in Opt({<<"9">>})}
    \cup {w \in TzTexts : w.sp = <<" ">> /\ w.second = <<>>}
TextCalls ==
    {Call(w, pr, FALSE, FALSE, NoneFormats) :
         w \in ValueTexts \cup RoundTripTexts, pr \in {PStr("year"), PStr("minute")}}

\* the options of to_string: the defaults, and other paddings, separators and ranked forms
DefaultToStringFormats == [seq |-> <<"abbr", "name", "+hhmm">>]
ToStringOptions ==
    {[zero_pad |-> zp, date_sep |-> <<"/">>, time_sep |-> <<":">>, tz_formats |-> DefaultToStringFormats] :
         zp \in BOOLEAN}
    \cup {[zero_pad |-> zp, date_sep |-> <<"-">>, time_sep |-> <<".">>, tz_formats |-> f] :
              zp \in BOOLEAN, f \in {[seq |-> <<"+hh:mm">>], [str |-> "name"]}}
    \cup {[zero_pad |-> TRUE, date_sep |-> <<>>, time_sep |-> <<"h", " ">>, tz_formats |-> f] :
              f \in {[seq |-> <<>>], [seq |-> <<"name", "iso">>], [other |-> NoneObj]}}

\* for a value that parse returned, also every pair of separators of the grammar and
\* ranked forms of each kind
RoundTripOptions ==
    {[zero_pad |-> zp, date_sep |-> ds, time_sep |-> ts, tz_formats |-> [seq |-> f]] :
         zp \in BOOLEAN, ds \in DateSeps, ts \in TimeSeps,
         f \in {<<"abbr", "name", "+hhmm">>, <<"name", "abbr", "utc+hh:mm">>, <<"+hh:mm">>,
                 <<"utc+hhmm">>, <<"abbr", "+hhmm">>}}

\* the timezones applied: as text of every form, as objects, unknown text and None
AppliedTimezones ==
    {TzText(<<"J", "S", "T">>), TzText(<<"+", "0", "9", ":", "0", "0">>), TzText(<<"-", "5", "3", "0">>),
     TzText(<<"z">>), TzText(<<"X", "Y", "Z">>), FlexiTimezone(-300, <<>>, <<>>),
     FlexiTimezone(540, <<"K", "S", "T">>, <<"A", "s", "i", "a", "/", "S", "e", "o", "u", "l">>),
     NoneObj}

\* v.ensure_timezone(default_tz).ensure_timezone(then_tz)
EnsureCalls ==
    {[self |-> self, default_tz |-> a, then_tz |-> b] :
         self \in {r \in Receivers : Take(<<2023, 12, 31, 23, 59, 7>>, r.precision + 1) = r.components},
         a \in AppliedTimezones, b \in AppliedTimezones}

\* the same with FlexDatetime values and apply_timezone
ApplyCalls ==
    {[flex |-> FlexDatetime(c.self.precision, c.self.components, c.self.tzinfo),
      tz |-> c.default_tz, then_tz |-> c.then_tz] : c \in EnsureCalls}

ValueCalls ==
    WithPrecisionCalls \cup ArithmeticCalls \cup TextCalls \cup EnsureCalls \cup ApplyCalls

InitValue ==
    /\ Registry
    /\ pc = "call" /\ op = "none" /\ ret = NoCall /\ cur = NoneObj /\ nops = 0
    /\ args \in ValueCalls

WithPrecision ==
    /\ pc = "call" /\ "rounding" \in DOMAIN args
    /\ ret' = with_precision(args.self, args.precision, args.default, args.rounding)
    /\ cur' = ret'.value
    /\ pc' = "done" /\ op' = "with_precision"
    /\ UNCHANGED <<args, nops, all_timezones, all_timezones_by_abbr>>

\* self + other
Add ==
    /\ pc = "call" /\ "other" \in DOMAIN args
    /\ ret' = add(args.self, args.other)
    /\ cur' = ret'.value
    /\ pc' = "done" /\ op' = "add"
    /\ UNCHANGED <<args, nops, all_timezones, all_timezones_by_abbr>>

\* self - other
Sub ==
    /\ pc = "call" /\ "other" \in DOMAIN args
    /\ ret' = sub(args.self, args.other)
    /\ cur' = ret'.value
    /\ pc' = "done" /\ op' = "sub"
    /\ UNCHANGED <<args, nops, all_timezones, all_timezones_by_abbr>>

\* the value that parse, + or - returned is rendered by to_string
Render ==
    /\ pc = "done" /\ op \in {"parse", "add", "sub"} /\ ret.kind = "ok"
    /\ \E o \in (IF op = "parse" THEN ToStringOptions \cup RoundTripOptions ELSE ToStringOptions) :
           /\ args' = o @@ args
           /\ ret' = to_string(cur, o.zero_pad, o.date_sep, o.time_sep, o.tz_formats)
    /\ pc' = "used" /\ op' = "to_string"
    /\ UNCHANGED <<cur, nops, all_timezones, all_timezones_by_abbr>>

\* the text that to_string returned for a parsed value is parsed as the first text was
Reparse ==
    /\ pc = "used" /\ op = "to_string" /\ ret.kind = "ok" /\ "source" \in DOMAIN args
    /\ args' = [rendered |-> ret.value] @@ args
    /\ ret' = parse(ret.value, args.precision_required, args.same_date_sep, args.same_time_sep,
                    args.allowed_tz_formats)
    /\ pc' = "again" /\ op' = "reparse"
    /\ UNCHANGED <<cur, nops, all_timezones, all_timezones_by_abbr>>

\* self.ensure_timezone(default_tz), then ensure_timezone(then_tz) on the value returned;
\* cur keeps the value that the first call returned
EnsureTimezone ==
    /\ "default_tz" \in DOMAIN args
    /\ \/ /\ pc = "call"
          /\ ret' = ensure_timezone(args.self, args.default_tz)
          /\ cur' = ret'.value
          /\ pc' = "done"
       \/ /\ pc = "done" /\ ret.kind = "ok"
          /\ ret' = ensure_timezone(cur, args.then_tz)
          /\ cur' = cur
          /\ pc' = "again"
    /\ op' = "ensure_timezone"
    /\ UNCHANGED <<args, nops, all_timezones, all_timezones_by_abbr>>

\* flex.apply_timezone(tz), then apply_timezone(then_tz) on the value returned
ApplyTimezone ==
    /\ "flex" \in DOMAIN args
    /\ \/ /\ pc = "call"
          /\ ret' = apply_timezone(args.flex, args.tz)
          /\ cur' = ret'.value
          /\ pc' = "done"
       \/ /\ pc = "done" /\ ret.kind = "ok"
          /\ ret' = apply_timezone(cur, args.then_tz)
          /\ cur' = cur
          /\ pc' = "again"
    /\ op' = "apply_timezone"
    /\ UNCHANGED <<args, nops, all_timezones, all_timezones_by_abbr>>

NextValue ==
    \/ WithPrecision \/ Add \/ Sub \/ Parse \/ Render \/ Reparse
    \/ EnsureTimezone \/ ApplyTimezone
SpecValue == InitValue /\ [][NextValue]_vars

-----------------------------------------------------------------------------
(* Acquisition.clean (records/models.py).  An acquisition holds the text   *)
(* the user typed (acquisition_date_str), the name of a timezone           *)
(* (acquisition_date_tz) and the timestamp worked out from both            *)
(* (acquisition_date, None or a datetime).  get_tzinfo hands the name to   *)
(* pytz; a zone is kept here as [zone, offset], its offset in minutes the  *)
(* one it has had since 1900.  A datetime without tzinfo is read by        *)
(* astimezone in the zone of the system, `local` minutes from UTC.         *)

\* the classes of error.py that derive from FDError
FDErrors ==
    {"FDFormatError", "FDValueError", "FDPrecisionError", "FDTimezoneFormatError",
     "FDTimezoneValueError", "FDTypeError"}

Zones == <<[zone |-> "Asia/Tokyo", offset |-> 540], [zone |-> "America/Bogota", offset |-> -300]>>

\* tzutil.get_tzinfo(name), name one of the choices of the field
get_tzinfo(name) == Zones[CHOOSE i \in DOMAIN Zones : Zones[i].zone = name]

\* tz.fromutc(utc) of astimezone, utc what `self - offset` gave
FromUtc(utc, tz) ==
    IF utc.kind # "ok" THEN utc
    ELSE Shift([utc.value EXCEPT !.tzinfo = tz], timedelta(0, tz.offset * 60))

\* datetime.astimezone(tz): utcoffset() refuses an offset of a day or more
astimezone(dt, tz, local) ==
    LET offset == IF dt.tzinfo = NoneObj THEN local ELSE dt.tzinfo.offset
    IN  IF Abs(offset) >= 24 * 60
        THEN Raised("ValueError", "offset must be a timedelta strictly between", {}, <<>>, NoneObj)
        ELSE FromUtc(Shift(dt, timedelta(0, -(offset * 60))), tz)

\* what a call of clean leaves: the fields of the acquisition and what the call gave back
Left(self, r) == [self |-> self, ret |-> r]

\* clean from the assignment of acquisition_date on, stamp what astimezone gave
Stamped(self, stamp) ==
    IF stamp.kind = "ok" THEN Left([self EXCEPT !.acquisition_date = stamp.value], Returned(NoneObj))
    ELSE IF stamp.kind \in FDErrors THEN Left([self EXCEPT !.acquisition_date = NoneObj], stamp)
    ELSE Left(self, stamp)

\* the inner try of clean, text what to_string gave: an FDError is passed over
Normalized(self, text) ==
    IF text.kind = "ok" THEN [self EXCEPT !.acquisition_date_str = text.value] ELSE self

\* clean once parse has returned dt
Rendered(self, dt, text, local) ==
    IF text.kind \notin FDErrors \cup {"ok"} THEN Left(self, text)
    ELSE Stamped(Normalized(self, text),
                 astimezone(to_datetime(dt), get_tzinfo(self.acquisition_date_tz), local))

\* clean once parse has returned or raised dt
Cleaned(self, dt, local) ==
    IF dt.kind \in FDErrors THEN Left([self EXCEPT !.acquisition_date = NoneObj], dt)
    ELSE IF dt.kind # "ok" THEN Left(self, dt)
    ELSE Rendered(self, dt.value, to_string(dt.value, TRUE, <<"/">>, <<":">>, [str |-> "none"]),
                  local)

\* Acquisition.clean
clean(self, local) ==
    IF self.acquisition_date_str = <<>> THEN Left(self, Returned(NoneObj))
    ELSE Cleaned(self, parse(self.acquisition_date_str, PStr("day"), FALSE, FALSE, NoneFormats),
                 local)

\* a timezone after "0001/1/1 0:00" and "9999/12/31 23:59": the ends of the calendar
EdgeTexts ==
    {Written(<<"0", "0", "0", "1">>, <<"/">>, <<"1">>, <<"/">>, <<"1">>, <<" ">>, <<"0">>, <<":">>,
             <<"0", "0">>, <<":">>, <<>>, <<" ">>, tz, <<>>, "drop") :
         tz \in {<<"+", "0", "9", ":", "0", "0">>, <<"-", "0", "5", "0", "0">>, <<"U", "T", "C">>}}
    \cup {Written(<<"9", "9", "9", "9">>, <<"/">>, <<"1", "2">>, <<"/">>, <<"3", "1">>, <<" ">>,
                  <<"2", "3">>, <<":">>, <<"5", "9">>, <<":">>, <<>>, <<" ">>, tz, <<>>, "drop") :
              tz \in {<<"+", "0", "9", ":", "0", "0">>, <<"-", "0", "5", "0", "0">>, <<"U", "T", "C">>}}

\* the texts typed: nothing, dates, times, times with a timezone
CleanTexts ==
    {<<>>}
    \cup {Spell(w) : w \in {d \in DateTexts : d.year # <<"1", "9", "0", "0">>}
                          \cup TimeTexts \cup TzTexts \cup TailTexts \cup EdgeTexts}

\* the timestamp the acquisition held before
OldDates == {NoneObj, datetime(2001, 3, 15, 4, 5, 6, get_tzinfo("Asia/Tokyo"))}

CleanCalls ==
    {[self |-> [acquisition_date_str |-> t, acquisition_date |-> d, acquisition_date_tz |-> z],
      local |-> l] :
         t \in CleanTexts, d \in OldDates, z \in {"Asia/Tokyo", "America/Bogota"}, l \in {0, 540}}

\* an acquisition is about to be cleaned
InitClean ==
    /\ Registry
    /\ pc = "call" /\ op = "none" /\ ret = NoCall /\ cur = NoneObj /\ nops = 0
    /\ args \in CleanCalls

\* acquisition.clean(): cur holds the fields of the acquisition afterwards
Clean ==
    /\ pc = "call" /\ "local" \in DOMAIN args
    /\ cur' = clean(args.self, args.local).self
    /\ ret' = clean(args.self, args.local).ret
    /\ pc' = "done" /\ op' = "clean"
    /\ UNCHANGED <<args, nops, all_timezones, all_timezones_by_abbr>>

\* full_clean() once more on what the first call left
CleanAgain ==
    /\ pc = "done" /\ op = "clean" /\ ret.kind = "ok"
    /\ cur' = clean(cur, args.local).self
    /\ ret' = clean(cur, args.local).ret
    /\ pc' = "again"
    /\ UNCHANGED <<op, args, nops, all_timezones, all_timezones_by_abbr>>

NextClean == Clean \/ CleanAgain
SpecClean == InitClean /\ [][NextClean]_vars

-----------------------------------------------------------------------------
(* What the parsers are held to.  The words below are read off the call:   *)
(* what was written (args.written) and what was asked (the arguments).     *)

\* a parser has run on the drawn call
Parsed(name) == pc = "done" /\ op = name

\* the six numbers written, year first, None for a component left out
WrittenComponents(w) == [i \in 1..6 |-> WrittenValue(w, i - 1)]

\* the precision asked for, as an index; -1 when none is asked; 6 when the name is unknown
Asked(pr) ==
    IF pr = NoneObj THEN -1
    ELSE IF "enum" \in DOMAIN pr THEN (IF pr.enum = 0 THEN -1 ELSE pr.enum)
    ELSE IF pr.str = "" THEN -1
    ELSE IF \E i \in 1..6 : PrecisionNames[i] = pr.str
    THEN (CHOOSE i \in 1..6 : PrecisionNames[i] = pr.str) - 1
    ELSE 6

\* C1: whatever FuzzyDatetime.parse accepts, the value's precision is the deepest
\* component written, every component down to it is the number written, and every
\* deeper component is None.
C1_PrecisionIsDeepestWritten ==
    (Parsed("parse") /\ ret.kind = "ok") =>
        /\ ret.value.precision = DeepestWritten(args.written)
        /\ \A i \in 0..5 :
               ret.value.components[i + 1] =
                   (IF i <= ret.value.precision THEN IntOf(Parts(args.written)[i + 1]) ELSE None)
        /\ \A i \in 0..5 : i > ret.value.precision => Parts(args.written)[i + 1] = <<>>

\* a text cut at the minute, with a timezone, accepted at Minute precision with no second
C1_Witness ==
    /\ Parsed("parse") /\ ret.kind = "ok"
    /\ args.written.minute # <<>> /\ args.written.second = <<>> /\ args.written.tz # <<>>
    /\ ret.value.precision = MINUTE /\ ret.value.components[6] = None

\* components from the year down to the precision are there, the deeper ones are not
Populated(v) ==
    \A i \in 0..5 : (v.components[i + 1] # None) <=> (i <= v.precision)

\* C2: every FuzzyDatetime produced by parse, parse_date, construction, from_datetime,
\* replace, with_precision, ensure_timezone, addition or subtraction, in any sequence,
\* has its components populated from the year down to its precision and None below it.
C2_PopulatedDownToPrecision ==
    /\ (ret.kind = "ok" /\ op \in {"parse", "parse_date", "construct", "from_datetime", "replace",
                                   "with_precision", "ensure_timezone", "add", "sub"})
           => Populated(ret.value)
    /\ cur # NoneObj => Populated(cur)

\* a third operation in a row gave a value: a constructed value with hours filled in,
\* made coarser or finer, then shifted
C2_Witness ==
    /\ pc = "live" /\ nops = MaxOps /\ op \in {"add", "sub"} /\ ret.kind = "ok"
    /\ cur = ret.value /\ cur.precision \in {MONTH, HOUR} /\ cur.tzinfo # NoneObj

\* the days of a month as the claim states them
ClaimedDays(year, month) ==
    IF month = 2
    THEN (IF year % 4 = 0 /\ (year % 100 # 0 \/ year % 400 = 0) THEN 29 ELSE 28)
    ELSE IF month \in {4, 6, 9, 11} THEN 30 ELSE 31

\* every component written is in its range
InRange(c) ==
    /\ c[1] \in 1..9999
    /\ c[2] # None => c[2] \in 1..12
    /\ (c[2] # None /\ c[2] \in 1..12 /\ c[3] # None) => c[3] \in 1..ClaimedDays(c[1], c[2])
    /\ c[4] # None => c[4] \in 0..23
    /\ c[5] # None => c[5] \in 0..59
    /\ c[6] # None => c[6] \in 0..59

\* a call that asks nothing but the grammar and the ranges: precision 'year', no separator
\* check, no timezone written and none required
AsksNothing(a) ==
    /\ a.precision_required = PStr("year") /\ ~a.same_date_sep /\ ~a.same_time_sep
    /\ a.allowed_tz_formats = NoneFormats /\ a.written.tz = <<>>

\* the text of the call, every component under one that is written being written too,
\* matches the grammar of the operation (a construction takes the numbers themselves)
MatchesGrammar ==
    /\ args.written.year # <<>> /\ ~HasHole(args.written)
    /\ op = "parse" => (AsksNothing(args) /\ DATETIME_REG(args.source) # <<>>)
    /\ op = "parse_date" => (AsksNothing(args) /\ DATE_REG(args.source) # <<>>)

\* C3: a grammar-matching input of parse / parse_date, or a direct construction, yields a
\* value if and only if every component is in its range (year 1..9999, month 1..12, day
\* 1..days of the month with the leap rule, hour 0..23, minute and second 0..59); else it
\* fails with an FDValueError, and a value holds the numbers as written, never clamped.
C3_ValueIffInRange ==
    (pc = "done" /\ op \in {"parse", "parse_date", "construct"} /\ MatchesGrammar) =>
        IF InRange(WrittenComponents(args.written))
        THEN ret.kind = "ok" /\ ret.value.components = WrittenComponents(args.written)
        ELSE ret.kind = "FDValueError" /\ ret.message = "out of range" /\ ret.value = NoneObj

\* "1900/2/29" is refused on its day: 1900 is divisible by 100 and not by 400
C3_Witness ==
    /\ Parsed("parse") /\ MatchesGrammar
    /\ WrittenComponents(args.written) = <<1900, 2, 29, None, None, None>>
    /\ ret.kind = "FDValueError" /\ "day" \in DOMAIN ret.details

\* component i (0 for the year) is written and outside its range; a day whose month is
\* no month is held against 31
OutOfRange(c, i) ==
    CASE i = 0 -> c[1] \notin 1..9999
      [] i = 1 -> c[2] # None /\ c[2] \notin 1..12
      [] i = 2 -> c[3] # None
                  /\ c[3] \notin 1..(IF c[2] \in 1..12 THEN ClaimedDays(c[1], c[2]) ELSE 31)
      [] i = 3 -> c[4] # None /\ c[4] \notin 0..23
      [] i = 4 -> c[5] # None /\ c[5] \notin 0..59
      [] i = 5 -> c[6] # None /\ c[6] \notin 0..59
Failing(c) == {i \in 0..5 : OutOfRange(c, i)}
MostSignificant(S) == CHOOSE i \in S : \A k \in S : i <= k

\* C4: when components of the input of parse are out of range, the value-range error
\* reports the most significant of them (year, month, day, hour, minute, second): its
\* message and its details carry that field and its value, and no less significant field
\* is reported.
C4_MostSignificantFailureReported ==
    (Parsed("parse") /\ MatchesGrammar /\ Failing(WrittenComponents(args.written)) # {}) =>
        LET first == MostSignificant(Failing(WrittenComponents(args.written)))
        IN  /\ ret.kind = "FDValueError"
            /\ ret.shows = {PrecisionNames[first + 1]}
            /\ PrecisionNames[first + 1] \in DOMAIN ret.details
            /\ ret.details[PrecisionNames[first + 1]] = WrittenComponents(args.written)[first + 1]
            /\ \A j \in 0..5 : j > first => PrecisionNames[j + 1] \notin DOMAIN ret.details

\* "2021/13/32 24:60:60": five components out of range, the month is the one reported
C4_Witness ==
    /\ Parsed("parse") /\ MatchesGrammar
    /\ Failing(WrittenComponents(args.written)) = {1, 2, 3, 4, 5}
    /\ ret.kind = "FDValueError" /\ DOMAIN ret.details = {"month"} /\ ret.details.month = 13

\* C5: parse rejects with an FDFormatError every input in which a component is written
\* while a more significant one is not (month needs year, day needs month, hour needs
\* day, minute needs hour, second needs minute).
C5_HolesAreFormatErrors ==
    (Parsed("parse") /\ HasHole(args.written)) => ret.kind = "FDFormatError"

\* the grammar of the operation matches the text of the call
GrammarMatches ==
    IF op = "parse_date" THEN DATE_REG(args.source) # <<>> ELSE DATETIME_REG(args.source) # <<>>

\* the call asks for a precision that exists (for parse_date: of a date) and the text,
\* without holes, stops above it
BelowRequired ==
    /\ args.written.year # <<>> /\ ~HasHole(args.written) /\ GrammarMatches
    /\ Asked(args.precision_required) \in 1..(IF op = "parse_date" THEN DAY ELSE SECOND)
    /\ DeepestWritten(args.written) < Asked(args.precision_required)

\* C6: a grammar-matching input below precision_required fails in parse and parse_date
\* with an FDPrecisionError that names the required precision and the actual precision of
\* the input; an input that does not match the grammar fails with an FDFormatError
\* whatever precision_required is.
C6_PrecisionErrorNamesBoth ==
    (pc = "done" /\ op \in {"parse", "parse_date"}) =>
        /\ BelowRequired =>
               /\ ret.kind = "FDPrecisionError"
               /\ "precision_required" \in ret.shows \cup DOMAIN ret.details
               /\ "in_precision" \in ret.shows \cup DOMAIN ret.details
        /\ ~GrammarMatches => ret.kind = "FDFormatError"

\* the precision asked for is one the text reaches
PrecisionMet ==
    Asked(args.precision_required)
        <= Min(DeepestWritten(args.written), IF op = "parse_date" THEN DAY ELSE SECOND)

\* the text has both date separators (both time separators) and they differ
MixedDateWritten(w) == w.month # <<>> /\ w.day # <<>> /\ w.sep1 # w.sep2
MixedTimeWritten(w) == w.minute # <<>> /\ w.second # <<>> /\ w.sep3 # w.sep4

\* the same text with the first separator of the date and of the time used twice
SingleSeparator(w) == [w EXCEPT !.sep2 = w.sep1, !.sep4 = w.sep3]

\* the operation of the call applied to the single-separator spelling
OnSingleSeparator ==
    IF op = "parse"
    THEN parse(Spell(SingleSeparator(args.written)), args.precision_required,
               args.same_date_sep, args.same_time_sep, args.allowed_tz_formats)
    ELSE parse_date(Spell(SingleSeparator(args.written)), args.precision_required,
                    args.same_date_sep)

\* the mixed-separator check that the call enables fires on the date, on the time
DateCheckFires == args.same_date_sep /\ MixedDateWritten(args.written)
TimeCheckFires == op = "parse" /\ args.same_time_sep /\ MixedTimeWritten(args.written)

\* the text has no timezone and the call does not require one
NoTimezoneAsked ==
    /\ args.written.tz = <<>>
    /\ op = "parse" => (args.allowed_tz_formats = NoneFormats \/ "none" \in args.allowed_tz_formats)

\* C7: on a grammar-matching text that reaches the precision asked for, parse and
\* parse_date with same_date_sep enabled reject two differing date separators, and parse
\* with same_time_sep enabled rejects two differing time separators, with an FDFormatError
\* whose details hold both separators as written; with the option disabled the text is
\* accepted (no timezone being required, every component in its range) and the value is
\* the one of its single-separator spelling.
C7_MixedSeparatorsOptIn ==
    (/\ pc = "done" /\ op \in {"parse", "parse_date"}
     /\ args.written.year # <<>> /\ ~HasHole(args.written) /\ GrammarMatches /\ PrecisionMet) =>
        /\ DateCheckFires =>
               /\ ret.kind = "FDFormatError" /\ ret.message = "Mixed date separators"
               /\ {"sep1", "sep2"} \subseteq DOMAIN ret.details
               /\ ret.details.sep1 = args.written.sep1 /\ ret.details.sep2 = args.written.sep2
        /\ TimeCheckFires => ret.kind = "FDFormatError"
        /\ (TimeCheckFires /\ ~DateCheckFires) =>
               /\ ret.message = "Mixed time separators"
               /\ {"sep3", "sep4"} \subseteq DOMAIN ret.details
               /\ ret.details.sep3 = args.written.sep3 /\ ret.details.sep4 = args.written.sep4
        /\ (/\ MixedDateWritten(args.written) \/ MixedTimeWritten(args.written)
            /\ ~DateCheckFires /\ ~TimeCheckFires /\ NoTimezoneAsked
            /\ InRange(WrittenComponents(args.written))) =>
               /\ ret.kind = "ok"
               /\ ret.value.components = WrittenComponents(args.written)
               /\ ret = OnSingleSeparator

\* parse("2023-4/1", same_date_sep=True) has failed naming '-' and '/'
C7_Witness ==
    /\ Parsed("parse") /\ args.same_date_sep
    /\ args.source = <<"2", "0", "2", "3", "-", "4", "/", "1">>
    /\ ret.kind = "FDFormatError" /\ ret.message = "Mixed date separators"
    /\ ret.details.sep1 = <<"-">> /\ ret.details.sep2 = <<"/">>

\* the timezone token that the grammar captures from the text of the call, <<>> when none
CapturedTz == IF DATETIME_REG(args.source) = <<>> THEN <<>> ELSE DATETIME_REG(args.source)[1].tz

\* what FlexiTimezone.parse makes of the captured token under the forms the call allows
TzOutcome ==
    FlexiTimezone_parse(CapturedTz, IF args.allowed_tz_formats = NoneFormats
                                    THEN DefaultTzFormats ELSE args.allowed_tz_formats)

\* parse has reached its timezone step with a token
TzStepReached ==
    /\ Parsed("parse") /\ args.written.year # <<>> /\ ~HasHole(args.written)
    /\ GrammarMatches /\ PrecisionMet /\ ~DateCheckFires /\ ~TimeCheckFires
    /\ CapturedTz # <<>>

\* C8: when FlexiTimezone.parse cannot resolve the timezone token that parse captured (no
\* form matches, or the form is not allowed), parse raises an FDTimezoneFormatError whose
\* cause is the error of FlexiTimezone.parse and whose details hold the whole source and
\* the token; no value is returned.
C8_TimezoneErrorWrapped ==
    (TzStepReached /\ TzOutcome.kind # "ok") =>
        /\ ret.kind = "FDTimezoneFormatError"
        /\ ret.cause = TzOutcome
        /\ DOMAIN ret.details = {"input", "timezone"}
        /\ ret.details.input = args.source /\ ret.details.timezone = CapturedTz
        /\ ret.value = NoneObj /\ cur = NoneObj

\* parse("2023/4/1 9:5 XYZ") has failed on the token no form matches
C8_Witness ==
    /\ Parsed("parse") /\ args.written.tz = <<"X", "Y", "Z">> /\ args.written.minute # <<>>
    /\ ret.kind = "FDTimezoneFormatError"
    /\ ret.cause # NoneObj /\ ret.cause.message = "Invalid timezone format"
    /\ ret.details.timezone = <<"X", "Y", "Z">>

-----------------------------------------------------------------------------
(* What FlexiTimezone.parse is held to.  The token is read here by hand,   *)
(* apart from the matcher: split at its prefix, its sign and its colon.    *)

\* FlexiTimezone.parse has run on the drawn token
TzParsed == pc = "done" /\ op = "tz_parse"

\* the forms the call allows
TzAllowed == IF args.allowed_formats = NoneFormats THEN AllTzFormats ELSE args.allowed_formats

\* the token in lower case; whether it starts with utc; what follows the prefix
Token == Lower(args.token)
HasUtcPrefix == Len(Token) >= 3 /\ SubSeq(Token, 1, 3) = <<"u", "t", "c">>
AfterPrefix == IF HasUtcPrefix THEN SubSeq(Token, 4, Len(Token)) ELSE Token

\* what follows the sign; $ of the pattern lets one newline end the token
AfterSign ==
    LET d == SubSeq(AfterPrefix, 2, Len(AfterPrefix))
    IN  IF d # <<>> /\ d[Len(d)] = "\n" THEN SubSeq(d, 1, Len(d) - 1) ELSE d

AllDigits(d) == \A i \in DOMAIN d : IsDigit(d[i])
HasColon == \E i \in DOMAIN AfterSign : AfterSign[i] = ":"
ColonAt == CHOOSE i \in DOMAIN AfterSign : AfterSign[i] = ":" /\ \A k \in 1..(i - 1) : AfterSign[k] # ":"
BeforeColon == SubSeq(AfterSign, 1, ColonAt - 1)
AfterColon == SubSeq(AfterSign, ColonAt + 1, Len(AfterSign))

\* the token is a numeric offset: [utc] sign, then h:m of 1-2 digits each or 1-4 digits
IsNumericToken ==
    /\ AfterPrefix # <<>> /\ AfterPrefix[1] \in {"+", "-"}
    /\ IF HasColon
       THEN /\ Len(BeforeColon) \in {1, 2} /\ AllDigits(BeforeColon)
            /\ Len(AfterColon) \in {1, 2} /\ AllDigits(AfterColon)
       ELSE Len(AfterSign) \in 1..4 /\ AllDigits(AfterSign)

\* which of the four numeric forms the token is written in
NumericForm ==
    IF HasColon THEN (IF HasUtcPrefix THEN "utc+hh:mm" ELSE "+hh:mm")
    ELSE (IF HasUtcPrefix THEN "utc+hhmm" ELSE "+hhmm")

\* the registry entries, read off the table
EntryNamed(t) ==
    LET e == TZ_MAP[CHOOSE i \in DOMAIN TZ_MAP : Lower(TZ_MAP[i].name) = t]
    IN  FlexiTimezone(e.utcOffset, e.abbr, e.name)
EntryAbbreviated(t) ==
    LET e == TZ_MAP[CHOOSE i \in DOMAIN TZ_MAP :
                        /\ Lower(TZ_MAP[i].abbr) = t
                        /\ \A k \in DOMAIN TZ_MAP : Lower(TZ_MAP[k].abbr) = t => k <= i]
    IN  FlexiTimezone(e.utcOffset, e.abbr, e.name)

\* the first form the token matches, in the order name, Z, abbreviation, numeric offset
TokenForm ==
    IF \E i \in DOMAIN TZ_MAP : Lower(TZ_MAP[i].name) = Token THEN "name"
    ELSE IF Token = <<"z">> THEN "z"
    ELSE IF \E i \in DOMAIN TZ_MAP : Lower(TZ_MAP[i].abbr) = Token THEN "abbr"
    ELSE IF IsNumericToken THEN NumericForm
    ELSE "no form"

\* C9: FlexiTimezone.parse decides by the first form the token matches, in the order
\* canonical name, Z, abbreviation, numeric offset, case ignored: if that form is allowed
\* it returns the registry entry (for a numeric offset a timezone with no name and no
\* abbreviation); if it is not allowed it raises an FDTimezoneFormatError naming that
\* form, whatever later form the token also matches; a token of no form raises an
\* FDTimezoneFormatError.
C9_FirstMatchingFormDecides ==
    TzParsed =>
        /\ TokenForm = "no form" =>
               ret.kind = "FDTimezoneFormatError" /\ ret.message = "Invalid timezone format"
        /\ (TokenForm # "no form" /\ TokenForm \notin TzAllowed) =>
               ret.kind = "FDTimezoneFormatError" /\ ret.message = TokenForm
        /\ (TokenForm # "no form" /\ TokenForm \in TzAllowed) =>
               /\ ret.kind = "ok"
               /\ TokenForm = "name" => ret.value = EntryNamed(Token)
               /\ TokenForm = "z" => ret.value = EntryAbbreviated(<<"u", "t", "c">>)
               /\ TokenForm = "abbr" => ret.value = EntryAbbreviated(Token)
               /\ TokenForm \notin {"name", "z", "abbr"} =>
                      ret.value.name = <<>> /\ ret.value.abbreviation = <<>>

\* "EST", a name and an abbreviation, has been rejected as a name though abbreviations
\* are allowed
C9_Witness ==
    /\ TzParsed /\ args.token = <<"E", "S", "T">> /\ args.allowed_formats = {"abbr"}
    /\ ret.kind = "FDTimezoneFormatError" /\ ret.message = "name"

\* hours and minutes of a numeric token: of a compact run the first 1-2 digits are the
\* hours when it has 1-2 or 4 digits, the first digit when it has 3
ClaimedHours ==
    IF HasColon THEN IntOf(BeforeColon)
    ELSE IF Len(AfterSign) = 3 THEN IntOf(SubSeq(AfterSign, 1, 1))
    ELSE IntOf(SubSeq(AfterSign, 1, Min(2, Len(AfterSign))))
ClaimedMinutes ==
    IF HasColon THEN IntOf(AfterColon)
    ELSE IF Len(AfterSign) = 3 THEN IntOf(SubSeq(AfterSign, 2, 3))
    ELSE IF Len(AfterSign) = 4 THEN IntOf(SubSeq(AfterSign, 3, 4))
    ELSE 0
ClaimedSign == IF AfterPrefix[1] = "-" THEN -1 ELSE 1

\* C10: a numeric offset token ([UTC] sign, then h:m with 1-2 digits each, or a run of 1-4
\* digits read as h, hh, hmm or hhmm), when its form ('+hh:mm', '+hhmm', 'utc+hh:mm' or
\* 'utc+hhmm' by its colon and its prefix) is allowed, yields the offset
\* sign * (60 * hours + minutes) minutes with no name and no abbreviation; when the form
\* is not allowed the error names that form.
C10_NumericOffsets ==
    (TzParsed /\ TokenForm \notin {"name", "z", "abbr", "no form"}) =>
        IF NumericForm \in TzAllowed
        THEN /\ ret.kind = "ok"
             /\ ret.value = [offset |-> ClaimedSign * (60 * ClaimedHours + ClaimedMinutes),
                             abbreviation |-> <<>>, name |-> <<>>]
        ELSE /\ ret.kind = "FDTimezoneFormatError" /\ ret.message = NumericForm
             /\ ret.value = NoneObj

\* "-123" has been read as 1 hour 23 minutes west
C10_Witness ==
    /\ TzParsed /\ args.token = <<"-", "1", "2", "3">>
    /\ ret.kind = "ok" /\ ret.value.offset = -83

\* the bound of an offset: 24 hours of 60 minutes
MaxOffsetMinutes == 24 * 60

\* the timezone that the operation of the call has returned, NoneObj when it returned none
ReturnedTz ==
    IF pc # "done" \/ ret.kind # "ok" THEN NoneObj
    ELSE IF op = "tz_parse" THEN ret.value
    ELSE IF op = "parse" THEN ret.value.tzinfo
    ELSE NoneObj

\* C11: every timezone that FlexiTimezone.parse returns, and every timezone of a value
\* that FuzzyDatetime.parse returns, has an offset within 24 * 60 minutes of UTC on
\* either side.
C11_OffsetWithinOneDay ==
    ReturnedTz # NoneObj =>
        (-MaxOffsetMinutes <= ReturnedTz.offset /\ ReturnedTz.offset <= MaxOffsetMinutes)

\* the timezones of "JST" and of "+09:00" have been compared
JstAndOffset ==
    /\ pc = "used" /\ op = "tz_eq"
    /\ args.token \in {<<"J", "S", "T">>, <<"j", "s", "t">>}
    /\ args.other = FlexiTimezone(9 * 60, <<>>, <<>>)

\* C12: the timezone of "JST" and the timezone of "+09:00" both have the offset 540 and
\* so are equal by offset, while == finds them different and their hashes are taken of
\* different (abbreviation, offset, name) triples; in general two timezones are == and
\* hash alike exactly when offset, abbreviation and name all agree.
C12_EqualByOffsetDistinctByTriple ==
    (pc = "used" /\ op = "tz_eq" /\ IsFlexiTimezone(args.other)) =>
        /\ ret.value.equal = (/\ cur.offset = args.other.offset
                              /\ cur.abbreviation = args.other.abbreviation
                              /\ cur.name = args.other.name)
        /\ (ret.value.hash = ret.value.other_hash) = ret.value.equal
        /\ JstAndOffset =>
               /\ cur.offset = 540 /\ args.other.offset = 540
               /\ ~ret.value.equal /\ ret.value.hash # ret.value.other_hash

\* "JST" and "+09:00" have been found different though both are 540 minutes east
C12_Witness ==
    /\ JstAndOffset /\ cur.offset = args.other.offset /\ ~ret.value.equal
    /\ cur.abbreviation = <<"J", "S", "T">>

\* try_format has run on the timezone held, with a ranked list (a str is a list of one)
Ranked == IF "str" \in DOMAIN args.tz_formats THEN <<args.tz_formats.str>> ELSE args.tz_formats.seq
TriedFormats == pc = "used" /\ op = "try_format" /\ "other" \notin DOMAIN args.tz_formats

\* the form can be rendered for the timezone: a name or an abbreviation only when the
\* timezone carries one, the four numeric forms always
Renderable(tz, f) ==
    \/ f = "name" /\ tz.name # <<>>
    \/ f = "abbr" /\ tz.abbreviation # <<>>
    \/ f \in {"+hh:mm", "+hhmm", "utc+hh:mm", "utc+hhmm"}

\* sign, hours and minutes of the offset as written in the numeric forms
OffsetDigits(tz, colon) ==
    <<IF tz.offset < 0 THEN "-" ELSE "+">>
    \o (IF Abs(tz.offset) \div 60 < 10 THEN <<"0">> ELSE <<>>) \o Str(Abs(tz.offset) \div 60)
    \o (IF colon THEN <<":">> ELSE <<>>)
    \o (IF Abs(tz.offset) % 60 < 10 THEN <<"0">> ELSE <<>>) \o Str(Abs(tz.offset) % 60)

\* the text of a renderable form
TextOf(tz, f) ==
    CASE f = "name" -> tz.name
      [] f = "abbr" -> tz.abbreviation
      [] f = "+hh:mm" -> OffsetDigits(tz, TRUE)
      [] f = "+hhmm" -> OffsetDigits(tz, FALSE)
      [] f = "utc+hh:mm" -> <<"U", "T", "C">> \o OffsetDigits(tz, TRUE)
      [] f = "utc+hhmm" -> <<"U", "T", "C">> \o OffsetDigits(tz, FALSE)

\* the places of the ranked list: those that can be rendered, those that name no form
RenderablePlaces == {i \in DOMAIN Ranked : Renderable(cur, Ranked[i])}
UnknownPlaces == {i \in DOMAIN Ranked : Ranked[i] \notin TzFormNames}
FirstOf(S) == CHOOSE i \in S : \A k \in S : i <= k

\* C13: try_format returns the text of the first form of the ranked list that can be
\* rendered for the timezone, and raises an error when no form of the list can be, the
\* empty list included.  (A list is ranked over the six forms; an entry that names no
\* form raises an error when the loop reaches it.)
C13_FirstRenderableForm ==
    TriedFormats =>
        IF RenderablePlaces # {}
           /\ \A u \in UnknownPlaces : FirstOf(RenderablePlaces) < u
        THEN ret.kind = "ok" /\ ret.value = TextOf(cur, Ranked[FirstOf(RenderablePlaces)])
        ELSE ret.kind = "FDValueError" /\ ret.value = NoneObj

\* a timezone without name or abbreviation, asked for name, abbreviation, UTC+hh:mm in
\* that order, has been rendered in the third form
C13_Witness ==
    /\ TriedFormats /\ Ranked = <<"name", "abbr", "utc+hh:mm">>
    /\ cur = FlexiTimezone(-305, <<>>, <<>>)
    /\ ret.kind = "ok" /\ ret.value = <<"U", "T", "C", "-", "0", "5", ":", "0", "5">>

-----------------------------------------------------------------------------
(* What with_precision is held to.  The receiver is args.self, the target  *)
(* is the precision named by args.precision.                               *)

\* with_precision has run on the drawn call
Adjusted == pc = "done" /\ op = "with_precision"
Target == Asked(args.precision)

\* the call narrows the receiver to Day or finer with one of the three roundings
NarrowsToDayOrFiner ==
    /\ Adjusted /\ DAY <= Target /\ Target < args.self.precision
    /\ args.rounding \in {"trunc", "ceil", "round"}

\* the components dropped by the narrowing, as places of the six (year is place 1)
Dropped == (Target + 2)..(args.self.precision + 1)

\* whether the rounding asks for the increment of the last component kept
Increments ==
    CASE args.rounding = "trunc" -> FALSE
      [] args.rounding = "ceil" -> \E i \in Dropped : args.self.components[i] # 0
      [] args.rounding = "round" ->
             2 * args.self.components[Target + 2] >= (IF Target = DAY THEN 24 ELSE 60)

\* the components kept, the last one incremented when the rounding asks for it
Kept ==
    [i \in 1..6 |->
        IF i > Target + 1 THEN None
        ELSE IF i = Target + 1 /\ Increments THEN args.self.components[i] + 1
        ELSE args.self.components[i]]

\* C14: the value that with_precision returns when it narrows to Day or finer has the
\* components kept unchanged under 'trunc', the last of them incremented under 'ceil'
\* exactly when some dropped component is not zero, and under 'round' exactly when the
\* most significant dropped component is at or past the middle of its unit.
C14_NarrowingRounds ==
    (NarrowsToDayOrFiner /\ ret.kind = "ok") =>
        ret.value.precision = Target /\ ret.value.components = Kept

\* the call narrows a Second-precision receiver with a nonzero second to Minute, with
\* 'ceil' or 'trunc' and no default; the minute has room for an increment
SecondToMinute ==
    /\ Adjusted /\ args.self.precision = SECOND /\ Target = MINUTE
    /\ args.self.components[6] # 0 /\ args.self.components[5] < 59
    /\ args.default = NoneObj /\ args.rounding \in {"ceil", "trunc"}

\* C15: a Second-precision value with a nonzero second, narrowed to Minute with no default,
\* comes back at Minute precision with its minute incremented by one under 'ceil' and
\* unchanged under 'trunc'.
C15_SecondToMinute ==
    SecondToMinute =>
        /\ ret.kind = "ok" /\ ret.value.precision = MINUTE
        /\ ret.value.components[5] =
               args.self.components[5] + (IF args.rounding = "ceil" THEN 1 ELSE 0)

\* the call narrows the receiver to Year or Month
NarrowsBelowDay == Adjusted /\ Target \in {YEAR, MONTH} /\ Target < args.self.precision

\* C16: with_precision narrowing to Year or Month raises FDValueError and returns no
\* value under 'ceil' and 'round'; under 'trunc' it returns the value of the components
\* down to the target, the others dropped.
C16_NoRoundingBelowDay ==
    NarrowsBelowDay =>
        /\ args.rounding \in {"ceil", "round"} =>
               ret.kind = "FDValueError" /\ ret.value = NoneObj /\ cur = NoneObj
        /\ args.rounding = "trunc" =>
               /\ ret.kind = "ok" /\ ret.value.precision = Target
               /\ \A i \in 1..6 :
                      ret.value.components[i] =
                          (IF i <= Target + 1 THEN args.self.components[i] ELSE None)

\* a value of 2023/12/31 23:59:30 has been refused the rounding 'ceil' to Month
C16_Witness ==
    /\ NarrowsBelowDay /\ Target = MONTH /\ args.rounding = "ceil"
    /\ args.self.components = <<2023, 12, 31, 23, 59, 30>>
    /\ ret.kind = "FDValueError"
    /\ ret.message = "Rounding method is not defined for precision"

\* the call widens the receiver
Widens == Adjusted /\ Target \in MONTH..SECOND /\ Target > args.self.precision

\* the timestamp the fill is taken from: the default, or midnight of January 1
FillSource ==
    IF args.default = NoneObj THEN <<args.self.components[1], 1, 1, 0, 0, 0>>
    ELSE <<args.default.year, args.default.month, args.default.day,
           args.default.hour, args.default.minute, args.default.second>>

\* the components after the fill: those present, then the fill down to the target
Filled ==
    [i \in 1..6 |->
        IF i <= args.self.precision + 1 THEN args.self.components[i]
        ELSE IF i <= Target + 1 THEN FillSource[i]
        ELSE None]

\* the default's timezone is one with_precision takes: none, or a FlexiTimezone
DefaultTzTaken ==
    args.default = NoneObj \/ args.default.tzinfo = NoneObj \/ IsFlexiTimezone(args.default.tzinfo)

\* C17: widening with with_precision returns the receiver's components unchanged and,
\* from the one after its precision down to the target, the components of the default
\* (of midnight, January 1 when there is no default), whenever these make a calendar
\* date; a Year-precision value widened to Day with a default of March 15 gets month 3,
\* day 15.
C17_WideningFills ==
    (Widens /\ InRange(Filled) /\ DefaultTzTaken) =>
        /\ ret.kind = "ok" /\ ret.value.precision = Target
        /\ ret.value.components = Filled

\* the year 2023 has been widened to Day with the default 2001-03-15 04:05:06
C17_Witness ==
    /\ Widens /\ Target = DAY /\ args.self.precision = YEAR
    /\ args.default # NoneObj /\ args.default.month = 3 /\ args.default.day = 15
    /\ ret.kind = "ok" /\ ret.value.components = <<2023, 3, 15, None, None, None>>

\* the timezone of the default, NoneObj when there is no default or it has none
DefaultTz == IF args.default = NoneObj THEN NoneObj ELSE args.default.tzinfo

\* C18: of the value that with_precision returns, the timezone is the receiver's when the
\* call narrows to Hour or finer, whatever the default; none when it narrows below Hour;
\* and when it widens from below Hour to Hour or finer, the default's if the receiver has
\* none, else the receiver's.
C18_TimezoneRules ==
    (Adjusted /\ Target \in YEAR..SECOND /\ Target # args.self.precision /\ ret.kind = "ok") =>
        /\ (Target < args.self.precision /\ Target >= HOUR) =>
               ret.value.tzinfo = args.self.tzinfo
        /\ (Target < args.self.precision /\ Target < HOUR) => ret.value.tzinfo = NoneObj
        /\ (Target > args.self.precision /\ args.self.precision < HOUR /\ Target >= HOUR) =>
               ret.value.tzinfo =
                   (IF args.self.tzinfo = NoneObj THEN DefaultTz ELSE args.self.tzinfo)

\* a duration has been added to or subtracted from a value
Arithmetic == pc = "done" /\ op \in {"add", "sub"}

\* the operand completed to a full timestamp: month 1, day 1, 00:00:00 where absent
Completed ==
    [i \in 1..NumPrecisions |->
        IF args.self.components[i] # None THEN args.self.components[i]
        ELSE <<1, 1, 1, 0, 0, 0>>[i]]

\* the days of the calendar up to and including year/month/day, 0001-01-01 being day 1
RECURSIVE DaysOfMonthsBefore(_, _)
DaysOfMonthsBefore(year, month) ==
    IF month = 1 THEN 0 ELSE DaysOfMonthsBefore(year, month - 1) + ClaimedDays(year, month - 1)
DayNumber(year, month, day) ==
    365 * (year - 1) + ((year - 1) \div 4) - ((year - 1) \div 100) + ((year - 1) \div 400)
    + DaysOfMonthsBefore(year, month) + day

\* the instant asked for, as the day of the calendar and the second of that day
Direction == IF op = "add" THEN 1 ELSE -1
SecondsAsked ==
    Completed[4] * 3600 + Completed[5] * 60 + Completed[6] + Direction * args.other.seconds
DayAsked ==
    DayNumber(Completed[1], Completed[2], Completed[3]) + Direction * args.other.days
    + (SecondsAsked \div 86400)
SecondAsked == SecondsAsked % 86400
InCalendar == DayAsked \in 1..DayNumber(9999, 12, 31)

\* the components c, present down to precision p, are those of the instant asked for
CutOfAsked(c, p) ==
    /\ \A i \in 1..NumPrecisions : (c[i] = None) <=> (i > p + 1)
    /\ InRange(c)
    /\ p = YEAR => (DayNumber(c[1], 1, 1) <= DayAsked /\ DayAsked < DayNumber(c[1] + 1, 1, 1))
    /\ p = MONTH => /\ DayNumber(c[1], c[2], 1) <= DayAsked
                    /\ DayAsked < DayNumber(c[1], c[2], 1) + ClaimedDays(c[1], c[2])
    /\ p >= DAY => DayNumber(c[1], c[2], c[3]) = DayAsked
    /\ p >= HOUR => c[4] = SecondAsked \div 3600
    /\ p >= MINUTE => c[5] = (SecondAsked % 3600) \div 60
    /\ p >= SECOND => c[6] = SecondAsked % 60

\* C19: adding a duration to a value, or subtracting it, returns a value of the operand's
\* precision and timezone whose components are those of the operand completed with month 1,
\* day 1 and 00:00:00, moved by the duration and cut at the operand's precision, the deeper
\* ones absent; this for every instant asked for that the calendar holds.
C19_ArithmeticKeepsPrecision ==
    (Arithmetic /\ InCalendar) =>
        /\ ret.kind = "ok"
        /\ ret.value.precision = args.self.precision
        /\ ret.value.tzinfo = args.self.tzinfo
        /\ CutOfAsked(ret.value.components, args.self.precision)

\* a day has been added to 2023/12/31 23:59 JST, a value without seconds
C19_Witness ==
    /\ Arithmetic /\ op = "add" /\ args.other = timedelta(1, 0)
    /\ args.self.components = <<2023, 12, 31, 23, 59, None>> /\ args.self.tzinfo = JST
    /\ ret.kind = "ok" /\ ret.value.components = <<2024, 1, 1, 23, 59, None>>
    /\ ret.value.precision = MINUTE /\ ret.value.tzinfo = JST

\* the text "2023/4/1 9:5 JST" has been parsed with required precision 'minute'
ExampleText == <<"2", "0", "2", "3", "/", "4", "/", "1", " ", "9", ":", "5", " ", "J", "S", "T">>
ExampleParsed ==
    /\ op \in {"parse", "to_string"} /\ "source" \in DOMAIN args
    /\ args.source = ExampleText /\ args.precision_required = PStr("minute")

\* a value has been rendered by to_string
Rendering == pc = "used" /\ op = "to_string"

\* n in decimal, in at least two or four digits, and in as many as it takes
Numeral(n, width) ==
    LET digit(k) == <<"0", "1", "2", "3", "4", "5", "6", "7", "8", "9">>[((n \div k) % 10) + 1]
        all == <<digit(1000), digit(100), digit(10), digit(1)>>
        lead == IF n >= 1000 THEN 4 ELSE IF n >= 100 THEN 3 ELSE IF n >= 10 THEN 2 ELSE 1
        shown == IF lead > width THEN lead ELSE width
    IN  SubSeq(all, 5 - shown, 4)

\* component i of the value rendered, as the options ask
Shown(i) ==
    Numeral(cur.components[i], IF ~args.zero_pad THEN 1 ELSE IF i = 1 THEN 4 ELSE 2)

\* the components from the year down to the value's precision, joined by the separators:
\* the date separator within the date, a space before the hour, the time separator after
ExpectedText ==
    Shown(1)
    \o (IF cur.precision >= MONTH THEN args.date_sep \o Shown(2) ELSE <<>>)
    \o (IF cur.precision >= DAY THEN args.date_sep \o Shown(3) ELSE <<>>)
    \o (IF cur.precision >= HOUR THEN <<" ">> \o Shown(4) ELSE <<>>)
    \o (IF cur.precision >= MINUTE THEN args.time_sep \o Shown(5) ELSE <<>>)
    \o (IF cur.precision >= SECOND THEN args.time_sep \o Shown(6) ELSE <<>>)

\* the text of the timezone in the forms asked for (the result of try_format)
TimezoneText == try_format(cur.tzinfo, args.tz_formats)

\* C20: parse("2023/4/1 9:5 JST") with required precision Minute returns the value
\* 2023, 4, 1, 9, 5, no second, of precision Minute and timezone offset +540, and
\* to_string(zero_pad=True) of it is "2023/04/01 09:05 JST".  to_string of any value is the
\* components from the year down to its precision, joined by the separators chosen and
\* zero-padded when asked, followed by a space and the timezone text when the value has a
\* timezone and by nothing when it has none.
C20_ToStringRendersDownToPrecision ==
    /\ (ExampleParsed /\ op = "parse") =>
           /\ ret.kind = "ok"
           /\ ret.value.components = <<2023, 4, 1, 9, 5, None>>
           /\ ret.value.precision = MINUTE
           /\ ret.value.tzinfo # NoneObj /\ ret.value.tzinfo.offset = 540
    /\ (ExampleParsed /\ Rendering /\ args.zero_pad /\ args.date_sep = <<"/">>
            /\ args.time_sep = <<":">> /\ args.tz_formats = DefaultToStringFormats) =>
           ret = Returned(<<"2", "0", "2", "3", "/", "0", "4", "/", "0", "1", " ",
                            "0", "9", ":", "0", "5", " ", "J", "S", "T">>)
    /\ (Rendering /\ cur.tzinfo = NoneObj) => ret = Returned(ExpectedText)
    /\ (Rendering /\ cur.tzinfo # NoneObj /\ TimezoneText.kind = "ok") =>
           ret = Returned(ExpectedText \o <<" ">> \o TimezoneText.value)

\* the value parsed from "2023/4/1 9:5 JST" has been rendered as "2023/04/01 09:05 JST"
C20_Witness ==
    /\ ExampleParsed /\ Rendering /\ args.zero_pad
    /\ cur.components = <<2023, 4, 1, 9, 5, None>> /\ cur.tzinfo.offset = 540
    /\ ret = Returned(<<"2", "0", "2", "3", "/", "0", "4", "/", "0", "1", " ",
                        "0", "9", ":", "0", "5", " ", "J", "S", "T">>)

\* the text rendered from a parsed value has been parsed again, the separators chosen
\* being separators of the grammar
RoundTripped ==
    /\ pc = "again" /\ op = "reparse"
    /\ args.date_sep \in DateSeps /\ args.time_sep \in TimeSeps

\* C21: the text that to_string renders from a value v that parse returned (padded or not,
\* any date separator among / . -, any time separator among : . -, any ranked forms that
\* render for v), parsed at the same required precision, gives a value of the precision and
\* the components of v, with a timezone of the same offset when v has one and none when v
\* has none.
C21_RoundTrip ==
    RoundTripped =>
        /\ ret.kind = "ok"
        /\ ret.value.precision = cur.precision
        /\ ret.value.components = cur.components
        /\ (cur.tzinfo = NoneObj) <=> (ret.value.tzinfo = NoneObj)
        /\ cur.tzinfo # NoneObj => ret.value.tzinfo.offset = cur.tzinfo.offset

\* a timezone has been applied to a value, by ensure_timezone or by apply_timezone
Applying == op \in {"ensure_timezone", "apply_timezone"}
AppliedOnce == Applying /\ pc = "done"
AppliedTwice == Applying /\ pc = "again"

\* the receiver of the first call, its timezone, and the timezone given
FirstReceiver == IF op = "ensure_timezone" THEN args.self ELSE args.flex
HeldTz(v) == IF op = "ensure_timezone" THEN v.tzinfo ELSE v.tz
GivenFirst == IF op = "ensure_timezone" THEN args.default_tz ELSE args.tz

\* the timezone that a text stands for, by the parser of the value's package
Resolved(tz) ==
    IF "text" \notin DOMAIN tz THEN Returned(tz)
    ELSE IF op = "ensure_timezone" THEN FlexiTimezone_parse(tz.text, NoneFormats)
    ELSE Timezone_parse(tz.text, BuildAllTimezones(TZ_MAP),
                        Timezone_AllTimezonesByAbbr(TZ_MAP, BuildAllTimezones(TZ_MAP)))

\* C22: ensure_timezone and apply_timezone return the receiver itself when it has a
\* timezone; on a receiver without one, given a timezone (an object, or a text that
\* resolves), they return a value of the receiver's precision and components that carries
\* the timezone given; and applying a second timezone to the value returned by the first
\* application returns that value again.
C22_ApplyIfAbsent ==
    /\ (AppliedOnce /\ HeldTz(FirstReceiver) # NoneObj) => ret = Returned(FirstReceiver)
    /\ (AppliedOnce /\ HeldTz(FirstReceiver) = NoneObj /\ GivenFirst # NoneObj
            /\ Resolved(GivenFirst).kind = "ok") =>
           /\ ret.kind = "ok"
           /\ ret.value.precision = FirstReceiver.precision
           /\ ret.value.components = FirstReceiver.components
           /\ HeldTz(ret.value) = Resolved(GivenFirst).value
    /\ (AppliedTwice /\ (HeldTz(cur) # NoneObj \/ GivenFirst # NoneObj)) => ret = Returned(cur)

\* 2023/12/31 without timezone was given "JST", then -05:00, by ensure_timezone: it is in JST
C22_Witness ==
    /\ AppliedTwice /\ op = "ensure_timezone"
    /\ args.self.components = <<2023, 12, 31, None, None, None>> /\ args.self.tzinfo = NoneObj
    /\ args.default_tz = TzText(<<"J", "S", "T">>) /\ args.then_tz = FlexiTimezone(-300, <<>>, <<>>)
    /\ ret.kind = "ok" /\ ret.value = cur /\ ret.value.tzinfo = JST

\* parse or parse_date has raised
ParseFailed == pc = "done" /\ op \in {"parse", "parse_date"} /\ ret.kind # "ok"

\* the details of the error hold the text handed to the parser
CarriesInput == "input" \in DOMAIN ret.details /\ ret.details.input = args.source

\* the details of a value-range error name a component of the text and hold its value
CarriesOffendingField ==
    \E i \in DOMAIN PrecisionNames :
        /\ PrecisionNames[i] \in DOMAIN ret.details
        /\ ret.details[PrecisionNames[i]] = WrittenValue(args.written, i - 1)
        /\ ~InRange(Take(<<WrittenValue(args.written, 0), WrittenValue(args.written, 1),
                            WrittenValue(args.written, 2), WrittenValue(args.written, 3),
                            WrittenValue(args.written, 4), WrittenValue(args.written, 5)>>, i))

\* C23: every error that parse or parse_date raises holds the text parsed in its details,
\* a value-range error (an FDValueError about a component) holds the name and the value of
\* the offending component as well, and no value is returned with an error.
C23_ErrorsCarryInput ==
    ParseFailed =>
        /\ CarriesInput
        /\ (ret.kind = "FDValueError" /\ "precision_required" \notin DOMAIN ret.details) =>
               CarriesOffendingField
        /\ ret.value = NoneObj

\* the timezones of an index
Entries(index) == {index[k] : k \in DOMAIN index}

\* two indexes have the same keys and, key by key, timezones that compare equal
SameIndex(a, b) ==
    /\ DOMAIN a = DOMAIN b
    /\ \A k \in DOMAIN a : FlexiTimezone_eq(a[k], b[k]) = Truth(TRUE)

\* the indexes built once more from the table
RebuiltByName == BuildAllTimezones(TZ_MAP)
RebuiltByAbbr == BuildAllTimezonesByAbbr(TZ_MAP, BuildAllTimezones(TZ_MAP))

RoundingNames == {"trunc", "ceil", "round"}
UnknownNameGiven == Asked(args.precision) = 6 \/ args.rounding \notin RoundingNames

\* C25: with_precision given the name of no precision, or the name of no rounding, raises
\* FDValueError, be the target equal to the receiver's precision, above it or below it.
C25_UnknownNamesRaise ==
    (Adjusted /\ UnknownNameGiven) => ret.kind = "FDValueError"

\* FuzzyDatetime(...) has been called
Constructed == op = "construct"

\* the precision passed to the constructor, as an index: -1 when None is passed, 6 for a
\* name of no precision
GivenPrecision ==
    IF args.precision = NoneObj THEN -1
    ELSE IF "enum" \in DOMAIN args.precision THEN args.precision.enum
    ELSE IF DatePrecision_by_name(args.precision.str) = <<>> THEN 6
    ELSE DatePrecision_by_name(args.precision.str)[1]

\* the deepest component passed
DeepestGiven ==
    CHOOSE i \in YEAR..SECOND :
        /\ args.components[i + 1] # None
        /\ \A k \in YEAR..SECOND : args.components[k + 1] # None => k <= i

\* year, month or day is absent while a deeper component, or the precision given, asks for it
DateComponentMissing ==
    \E i \in YEAR..DAY :
        /\ args.components[i + 1] = None
        /\ i <= (IF GivenPrecision = -1 THEN DeepestGiven ELSE GivenPrecision)
        /\ \E k \in (i + 1)..SECOND : args.components[k + 1] # None

\* a component deeper than the precision given is present
DeeperThanGiven ==
    /\ GivenPrecision \in YEAR..SECOND
    /\ \E k \in (GivenPrecision + 1)..SECOND : args.components[k + 1] # None

\* C26: the constructor, given a component while year, month or day above it (and within
\* the precision) is absent, or given a component deeper than the precision passed, raises
\* FDPrecisionError and returns no value.
C26_ConstructorChecksPrecision ==
    (Constructed /\ (DateComponentMissing \/ DeeperThanGiven)) =>
        ret.kind = "FDPrecisionError" /\ ret.value = NoneObj

-----------------------------------------------------------------------------
(* C27.  The date-time grammar extends the date-only grammar.              *)

\* FuzzyDatetime.parse on the text parse_date was given, with the same required precision
\* and separator checks and a missing timezone allowed
ParsedAsDatetime ==
    parse(args.source, args.precision_required, args.same_date_sep, args.same_time_sep, NoneFormats)

\* C27: every text that FuzzyDatetime.parse_date accepts is accepted by FuzzyDatetime.parse
\* too (missing timezone allowed, same required precision), and the two values have the same
\* precision and the same components.
C27_ParseAcceptsEveryDate ==
    (Parsed("parse_date") /\ ret.kind = "ok") =>
        /\ ParsedAsDatetime.kind = "ok"
        /\ ParsedAsDatetime.value.precision = ret.value.precision
        /\ ParsedAsDatetime.value.components = ret.value.components

-----------------------------------------------------------------------------
(* C28.  Acquisition.clean updates both fields or neither.                 *)

\* clean has run on an acquisition whose text is not empty
CleanedText == pc = "done" /\ op = "clean" /\ args.self.acquisition_date_str # <<>>

\* the value the text parses to with a precision of Day required, its normalized text and
\* the timestamp it resolves to in the timezone of the acquisition
TypedValue == parse(args.self.acquisition_date_str, PStr("day"), FALSE, FALSE, NoneFormats)
NormalizedText == to_string(TypedValue.value, TRUE, <<"/">>, <<":">>, [str |-> "none"])
ResolvedTimestamp ==
    astimezone(to_datetime(TypedValue.value), get_tzinfo(args.self.acquisition_date_tz), args.local)

\* both fields are updated and the call returns
BothUpdated ==
    /\ ret.kind = "ok"
    /\ TypedValue.kind = "ok" /\ NormalizedText.kind = "ok" /\ ResolvedTimestamp.kind = "ok"
    /\ cur.acquisition_date_str = NormalizedText.value
    /\ cur.acquisition_date = ResolvedTimestamp.value

\* an FDError is raised, the timestamp is None and the text is as it was
RefusedWhole ==
    /\ ret.kind \in FDErrors
    /\ cur.acquisition_date = NoneObj
    /\ cur.acquisition_date_str = args.self.acquisition_date_str

\* C28: Acquisition.clean called with a non-empty acquisition_date_str ends in exactly one
\* of two ways: it returns with the text replaced by the normalized text of the parsed value
\* and acquisition_date set to the resolved timestamp, or it raises an FDError with
\* acquisition_date None and the text left as it was.  It never leaves one field updated and
\* the other stale, and never raises an error that is not an FDError.
C28_CleanUpdatesBothOrNeither ==
    CleanedText => (BothUpdated \/ RefusedWhole)

-----------------------------------------------------------------------------
(* C29.  FuzzyDatetime.parse reports the first check that fails.           *)

\* what the grammar captured from the text of the call
Captured == IF DATETIME_REG(args.source) = <<>> THEN NoGroups ELSE DATETIME_REG(args.source)[1]
CapturedParts ==
    <<Captured.year, Captured.month, Captured.day, Captured.hour, Captured.minute, Captured.second>>
\* the numbers captured, and the deepest component captured with all above it
CapturedNumbers == [i \in 1..6 |-> IF CapturedParts[i] = <<>> THEN None ELSE IntOf(CapturedParts[i])]
CapturedPrecision ==
    IF Captured.year = <<>> THEN -1
    ELSE CHOOSE p \in YEAR..SECOND :
             /\ \A i \in 1..(p + 1) : CapturedParts[i] # <<>>
             /\ p < SECOND => CapturedParts[p + 2] = <<>>

\* the checks in the order claimed, each TRUE when it fails
GrammarFails == DATETIME_REG(args.source) = <<>>
NameFails == Asked(args.precision_required) = 6
PrecisionFails == Asked(args.precision_required) > CapturedPrecision
SeparatorsFail ==
    \/ args.same_date_sep /\ Captured.sep1 # <<>> /\ Captured.sep2 # <<>>
          /\ Captured.sep1 # Captured.sep2
    \/ args.same_time_sep /\ Captured.sep3 # <<>> /\ Captured.sep4 # <<>>
          /\ Captured.sep3 # Captured.sep4
TimezoneFails ==
    IF Captured.tz # <<>> THEN TzOutcome.kind # "ok"
    ELSE args.allowed_tz_formats # NoneFormats /\ "none" \notin args.allowed_tz_formats
RangesFail == ~InRange(CapturedNumbers)

\* the error of the first check that fails, "ok" when none does
FirstFailure ==
    IF GrammarFails THEN "FDFormatError"
    ELSE IF NameFails THEN "FDValueError"
    ELSE IF PrecisionFails THEN "FDPrecisionError"
    ELSE IF SeparatorsFail THEN "FDFormatError"
    ELSE IF TimezoneFails THEN "FDTimezoneFormatError"
    ELSE IF RangesFail THEN "FDValueError"
    ELSE "ok"

\* C29: FuzzyDatetime.parse applies its checks in a fixed order and reports only the first
\* that fails: the grammar (FDFormatError), an unknown name of the required precision
\* (FDValueError), the required precision (FDPrecisionError), mixed separators
\* (FDFormatError), the timezone token or its absence (FDTimezoneFormatError) and last the
\* ranges of the components (FDValueError).
C29_FirstFailingCheckReported ==
    Parsed("parse") => ret.kind = FirstFailure

\* parse has met a text with month 13 and a timezone that no form matches
C29_Witness ==
    /\ Parsed("parse") /\ ~GrammarFails /\ ~NameFails /\ ~PrecisionFails /\ ~SeparatorsFail
    /\ TimezoneFails /\ RangesFail /\ Captured.tz = <<"X", "Y", "Z">>
    /\ CapturedNumbers[2] = 13
    /\ ret.kind = "FDTimezoneFormatError"

-----------------------------------------------------------------------------
(* C30.  'ceil' and 'round' never carry into a more significant component. *)

\* the largest value of the last component kept
LastKeptMax ==
    CASE Target = DAY -> ClaimedDays(args.self.components[1], args.self.components[2])
      [] Target = HOUR -> 23
      [] Target = MINUTE -> 59

\* the increment is due going by the most significant dropped component alone: not zero
\* under 'ceil', at or past the middle of its unit under 'round'
IncrementDue ==
    IF args.rounding = "ceil" THEN args.self.components[Target + 2] > 0
    ELSE 2 * args.self.components[Target + 2] >= (IF Target = DAY THEN 24 ELSE 60)

\* the narrowing asks for an increment of a last kept component that is at its maximum
WouldCarry ==
    /\ NarrowsToDayOrFiner /\ args.rounding \in {"ceil", "round"}
    /\ IncrementDue
    /\ args.self.components[Target + 1] = LastKeptMax

\* C30: with_precision with rounding 'ceil' or 'round' never carries into a more significant
\* component: when the increment would push the last component kept past its maximum
\* (minute 59 to 60, hour 23 to 24, a day past the end of its month), the call fails with an
\* FDValueError and returns no value; the receiver is left as it was.
C30_NoCarry ==
    WouldCarry => (ret.kind = "FDValueError" /\ ret.value = NoneObj /\ cur = NoneObj)

====
